------------------------------ MODULE Spec2Model ------------------------------
(***************************************************************************)
(* The response-generation pipeline of MindfulCompanion:                   *)
(*   backend/safety_filter.py      SafetyFilter                            *)
(*   backend/emotion_detector.py   EmotionDetector                         *)
(*   utils/prompts.py              PromptBuilder                           *)
(*   backend/llm_handler.py        LLMHandler                              *)
(*   backend/response_generator.py ResponseGenerator                       *)
(*                                                                         *)
(* A Python str is a sequence of characters, each character a one-letter   *)
(* string; an Optional[str] is a record [none, s].  The fixed texts of the *)
(* program are reproduced character by character.                          *)
(***************************************************************************)
EXTENDS Integers, Sequences, FiniteSets, TLC

(***************************************************************************)
(* Python's str and list operations                                        *)
(***************************************************************************)
None == [none |-> TRUE, s |-> <<>>]

Str(s) == [none |-> FALSE, s |-> s]

LowerLetters ==
    <<"a","b","c","d","e","f","g","h","i","j","k","l","m",
      "n","o","p","q","r","s","t","u","v","w","x","y","z">>

UpperLetters ==
    <<"A","B","C","D","E","F","G","H","I","J","K","L","M",
      "N","O","P","Q","R","S","T","U","V","W","X","Y","Z">>

Digits == {"0","1","2","3","4","5","6","7","8","9"}

\* the characters str.strip() removes and str.isspace() accepts
Whitespace == {" ", "\n", "\t", "\r", "\f"}

IsUpper(c) == \E i \in 1..26 : UpperLetters[i] = c

IsLower(c) == \E i \in 1..26 : LowerLetters[i] = c

\* the lowercase of each uppercase letter
LowerOf == [c \in {UpperLetters[i] : i \in 1..26} |->
                LowerLetters[CHOOSE i \in 1..26 : UpperLetters[i] = c]]

lower_char(c) == IF c \in DOMAIN LowerOf THEN LowerOf[c] ELSE c

\* str.lower()
lower(s) == [i \in 1..Len(s) |-> lower_char(s[i])]

\* str.strip()
strip(s) ==
    LET keep == {i \in 1..Len(s) : s[i] \notin Whitespace}
    IN  IF keep = {} THEN <<>>
        ELSE SubSeq(s, CHOOSE i \in keep : \A j \in keep : i <= j,
                       CHOOSE i \in keep : \A j \in keep : i >= j)

\* k in s
str_in(k, s) == \E i \in 0..(Len(s) - Len(k)) : \A j \in 1..Len(k) : s[i + j] = k[j]

\* s.count(c) for a single character c
count(s, c) == Cardinality({i \in 1..Len(s) : s[i] = c})

\* set(s)
set(s) == {s[i] : i \in 1..Len(s)}

\* any(k in s for k in keywords)
any_in(keywords, s) == \E i \in 1..Len(keywords) : str_in(keywords[i], s)

\* every str over an alphabet of at most n characters
StrUpTo(alphabet, n) == UNION {[1..k -> alphabet] : k \in 0..n}

(***************************************************************************)
(* backend/safety_filter.py                                                *)
(***************************************************************************)
\* SafetyFilter.crisis_keywords
crisis_keywords ==
    <<
      <<"s","u","i","c","i","d","e">>,
      <<"s","u","i","c","i","d","a","l">>,
      <<"k","i","l","l"," ","m","y","s","e","l","f">>,
      <<"e","n","d"," ","m","y"," ","l","i","f","e">>,
      <<"d","i","e">>,
      <<"s","e","l","f"," ","h","a","r","m">>,
      <<"c","u","t","t","i","n","g">>,
      <<"o","v","e","r","d","o","s","e">>,
      <<"h","u","r","t"," ","m","y","s","e","l","f">>,
      <<"w","a","n","t"," ","t","o"," ","d","i","e">>,
      <<"b","e","t","t","e","r"," ","o","f","f"," ","d","e","a","d">>,
      <<"n","o"," ","r","e","a","s","o","n"," ","t","o"," ","l","i","v","e">>
    >>

\* SafetyFilter.medical_keywords
medical_keywords ==
    <<
      <<"d","i","a","g","n","o","s","e">>,
      <<"d","i","a","g","n","o","s","i","s">>,
      <<"p","r","e","s","c","r","i","b","e">>,
      <<"p","r","e","s","c","r","i","p","t","i","o","n">>,
      <<"m","e","d","i","c","a","t","i","o","n">>,
      <<"d","i","s","o","r","d","e","r">>,
      <<"c","o","n","d","i","t","i","o","n">>,
      <<"t","r","e","a","t","m","e","n","t"," ","p","l","a","n">>,
      <<"t","h","e","r","a","p","y">>,
      <<"c","u","r","e">>,
      <<"i","l","l","n","e","s","s">>,
      <<"d","i","s","e","a","s","e">>,
      <<"s","y","n","d","r","o","m","e">>,
      <<"c","l","i","n","i","c","a","l">>
    >>

\* SafetyFilter.prohibited_phrases
prohibited_phrases ==
    <<
      <<"y","o","u"," ","h","a","v","e">>,
      <<"y","o","u"," ","a","r","e"," ","d","i","a","g","n","o","s","e","d">>,
      <<"y","o","u"," ","s","u","f","f","e","r"," ","f","r","o","m">>,
      <<"i"," ","d","i","a","g","n","o","s","e">>,
      <<"y","o","u"," ","n","e","e","d"," ","m","e","d","i","c","a","t","i","o","n">>,
      <<"t","a","k","e"," ","t","h","e","s","e"," ","p","i","l","l","s">>,
      <<"y","o","u"," ","s","h","o","u","l","d"," ","s","t","o","p"," ","t","a","k","i","n","g">>,
      <<"t","h","i","s"," ","i","s"," ","d","e","f","i","n","i","t","e","l","y">>
    >>

\* SafetyFilter._is_mental_health_topic: mental_health_terms
mental_health_terms ==
    <<
      <<"d","e","p","r","e","s","s","i","o","n">>,
      <<"a","n","x","i","e","t","y">>,
      <<"m","e","n","t","a","l"," ","h","e","a","l","t","h">>,
      <<"t","h","e","r","a","p","y">>,
      <<"c","o","u","n","s","e","l","i","n","g">>,
      <<"p","s","y","c","h","o","l","o","g","i","s","t">>,
      <<"p","s","y","c","h","i","a","t","r","i","s","t">>
    >>

\* SafetyFilter._add_disclaimer: disclaimer
disclaimer ==
    <<"\n","\n","*","R","e","m","e","m","b","e","r",":"," ","I","'","m"," ","h","e","r","e"," ",
      "f","o","r"," ","s","u","p","p","o","r","t",","," ","b","u","t"," ","I","'","m"," ","n",
      "o","t"," ","a"," ","t","h","e","r","a","p","i","s","t"," ","o","r"," ","m","e","d","i",
      "c","a","l"," ","p","r","o","f","e","s","s","i","o","n","a","l",".","*">>

\* SafetyFilter._get_crisis_response (U+2022 is the bullet character)
_get_crisis_response ==
    <<"I","'","m"," ","c","o","n","c","e","r","n","e","d"," ","a","b","o","u","t"," ","w","h",
      "a","t"," ","y","o","u","'","v","e"," ","s","h","a","r","e","d","."," ","P","l","e","a",
      "s","e"," ","k","n","o","w"," ","t","h","a","t"," ","y","o","u"," ","d","o","n","'","t",
      " ","h","a","v","e"," ","t","o"," ","f","a","c","e"," ","t","h","i","s"," ","a","l","o",
      "n","e",".","\n","\n","*","*","I","f"," ","y","o","u","'","r","e"," ","i","n"," ","i","m",
      "m","e","d","i","a","t","e"," ","d","a","n","g","e","r",","," ","p","l","e","a","s","e",
      ":","*","*","\n","U+2022"," ","C","a","l","l"," ","e","m","e","r","g","e","n","c","y"," ",
      "s","e","r","v","i","c","e","s"," ","(","9","1","1"," ","i","n"," ","U","S",")","\n",
      "U+2022"," ","G","o"," ","t","o"," ","y","o","u","r"," ","n","e","a","r","e","s","t"," ",
      "e","m","e","r","g","e","n","c","y"," ","r","o","o","m","\n","U+2022"," ","C","a","l","l",
      " ","a"," ","c","r","i","s","i","s"," ","h","o","t","l","i","n","e",":","\n"," "," ","-",
      " ","N","a","t","i","o","n","a","l"," ","S","u","i","c","i","d","e"," ","P","r","e","v",
      "e","n","t","i","o","n"," ","L","i","f","e","l","i","n","e",":"," ","9","8","8","\n"," ",
      " ","-"," ","C","r","i","s","i","s"," ","T","e","x","t"," ","L","i","n","e",":"," ","T",
      "e","x","t"," ","H","O","M","E"," ","t","o"," ","7","4","1","7","4","1","\n"," "," ","-",
      " ","I","n","t","e","r","n","a","t","i","o","n","a","l",":"," ","f","i","n","d","a","h",
      "e","l","p","l","i","n","e",".","c","o","m","\n","\n","Y","o","u"," ","d","e","s","e","r",
      "v","e"," ","s","u","p","p","o","r","t"," ","f","r","o","m"," ","t","r","a","i","n","e",
      "d"," ","p","r","o","f","e","s","s","i","o","n","a","l","s"," ","w","h","o"," ","c","a",
      "n"," ","h","e","l","p"," ","y","o","u"," ","t","h","r","o","u","g","h"," ","t","h","i",
      "s","."," ","I","'","m"," ","h","e","r","e"," ","t","o"," ","l","i","s","t","e","n",",",
      " ","b","u","t"," ","I","'","m"," ","n","o","t"," ","e","q","u","i","p","p","e","d"," ",
      "t","o"," ","h","a","n","d","l","e"," ","c","r","i","s","i","s"," ","s","i","t","u","a",
      "t","i","o","n","s","."," ","P","l","e","a","s","e"," ","r","e","a","c","h"," ","o","u",
      "t"," ","t","o"," ","o","n","e"," ","o","f"," ","t","h","e"," ","r","e","s","o","u","r",
      "c","e","s"," ","a","b","o","v","e",".">>

\* SafetyFilter._get_safe_alternative
_get_safe_alternative ==
    <<"I"," ","w","a","n","t"," ","t","o"," ","s","u","p","p","o","r","t"," ","y","o","u",",",
      " ","b","u","t"," ","I","'","m"," ","n","o","t"," ","q","u","a","l","i","f","i","e","d",
      " ","t","o"," ","p","r","o","v","i","d","e"," ","m","e","d","i","c","a","l"," ","a","d",
      "v","i","c","e"," ","o","r"," ","d","i","a","g","n","o","s","i","s","."," ","\n","\n","I",
      "f"," ","y","o","u","'","r","e"," ","e","x","p","e","r","i","e","n","c","i","n","g"," ",
      "m","e","n","t","a","l"," ","h","e","a","l","t","h"," ","c","o","n","c","e","r","n","s",
      ","," ","I"," ","e","n","c","o","u","r","a","g","e"," ","y","o","u"," ","t","o",":","\n",
      "U+2022"," ","S","p","e","a","k"," ","w","i","t","h"," ","a"," ","h","e","a","l","t","h",
      "c","a","r","e"," ","p","r","o","v","i","d","e","r","\n","U+2022"," ","C","o","n","t","a",
      "c","t"," ","a"," ","m","e","n","t","a","l"," ","h","e","a","l","t","h"," ","p","r","o",
      "f","e","s","s","i","o","n","a","l","\n","U+2022"," ","C","a","l","l"," ","a"," ","h","e",
      "l","p","l","i","n","e"," ","f","o","r"," ","g","u","i","d","a","n","c","e","\n","\n","I",
      "'","m"," ","h","e","r","e"," ","t","o"," ","l","i","s","t","e","n"," ","a","n","d"," ",
      "p","r","o","v","i","d","e"," ","g","e","n","e","r","a","l"," ","e","m","o","t","i","o",
      "n","a","l"," ","s","u","p","p","o","r","t","."," ","H","o","w"," ","a","r","e"," ","y",
      "o","u"," ","f","e","e","l","i","n","g"," ","r","i","g","h","t"," ","n","o","w","?">>

\* validate_user_input: the suggestion of reason "empty"
SuggestionEmpty ==
    <<"P","l","e","a","s","e"," ","s","h","a","r","e"," ","w","h","a","t","'","s"," ","o","n",
      " ","y","o","u","r"," ","m","i","n","d",".">>

\* validate_user_input: the suggestion of reason "gibberish"
SuggestionGibberish ==
    <<"I","'","m"," ","h","a","v","i","n","g"," ","t","r","o","u","b","l","e"," ","u","n","d",
      "e","r","s","t","a","n","d","i","n","g","."," ","C","o","u","l","d"," ","y","o","u"," ",
      "r","e","p","h","r","a","s","e"," ","t","h","a","t","?">>

\* validate_user_input: the suggestion of reason "long"
SuggestionLong ==
    <<"T","h","a","t","'","s"," ","a"," ","l","o","t"," ","t","o"," ","p","r","o","c","e","s",
      "s","!"," ","L","e","t","'","s"," ","b","r","e","a","k"," ","i","t"," ","d","o","w","n",
      " ","t","o","g","e","t","h","e","r",".">>

\* x > n * 0.7 in double arithmetic: for n < 90 the product n * 0.7 rounds
\* to a double that compares with an integer x as 7n/10 does (n = 90 is the
\* first length where 90 * 0.7 = 62.99999999999999 < 63).  The texts of 1000
\* and 1001 characters of the model are one repeated character, or have a first
\* character that fills less than a tenth of them: far from the threshold.
MoreThan70Percent(x, n) == 10 * x > 7 * n

\* a validate_user_input that measures the text without strip()
validate_user_input_unstripped(text) ==
    IF text.none \/ text.s = <<>> \/ Len(text.s) < 2
    THEN [valid |-> FALSE, reason |-> "empty", suggestion |-> Str(SuggestionEmpty)]
    ELSE IF \/ Cardinality(set(text.s)) < 3
            \/ MoreThan70Percent(count(text.s, text.s[1]), Len(text.s))
    THEN [valid |-> FALSE, reason |-> "gibberish",
          suggestion |-> Str(SuggestionGibberish)]
    ELSE IF Len(text.s) > 1000
    THEN [valid |-> TRUE, reason |-> "long", suggestion |-> Str(SuggestionLong)]
    ELSE [valid |-> TRUE, reason |-> "ok", suggestion |-> None]

\* a validate_user_input that tests the length before the gibberish
validate_user_input_long_first(text) ==
    IF text.none \/ text.s = <<>> \/ Len(strip(text.s)) < 2
    THEN [valid |-> FALSE, reason |-> "empty", suggestion |-> Str(SuggestionEmpty)]
    ELSE IF Len(text.s) > 1000
    THEN [valid |-> TRUE, reason |-> "long", suggestion |-> Str(SuggestionLong)]
    ELSE IF \/ Cardinality(set(text.s)) < 3
            \/ MoreThan70Percent(count(text.s, text.s[1]), Len(text.s))
    THEN [valid |-> FALSE, reason |-> "gibberish",
          suggestion |-> Str(SuggestionGibberish)]
    ELSE [valid |-> TRUE, reason |-> "ok", suggestion |-> None]

validate_user_input(text) ==
    IF text.none \/ text.s = <<>> \/ Len(strip(text.s)) < 2
    THEN [valid |-> FALSE, reason |-> "empty", suggestion |-> Str(SuggestionEmpty)]
    ELSE IF \/ Cardinality(set(text.s)) < 3
            \/ MoreThan70Percent(count(text.s, text.s[1]), Len(text.s))
    THEN [valid |-> FALSE, reason |-> "gibberish",
          suggestion |-> Str(SuggestionGibberish)]
    ELSE IF Len(text.s) > 1000
    THEN [valid |-> TRUE, reason |-> "long", suggestion |-> Str(SuggestionLong)]
    ELSE [valid |-> TRUE, reason |-> "ok", suggestion |-> None]

check_crisis(text) ==
    LET text_lower == lower(text)
        crisis_detected == any_in(crisis_keywords, text_lower)
    IN  IF crisis_detected
        THEN [is_crisis |-> TRUE, severity |-> "high",
              message |-> Str(_get_crisis_response)]
        ELSE [is_crisis |-> FALSE, severity |-> "none", message |-> None]

_is_mental_health_topic(text) == any_in(mental_health_terms, text)

\* an _add_disclaimer that appends without looking
_add_disclaimer_always(response) == response \o disclaimer

_add_disclaimer(response) ==
    IF ~str_in(disclaimer, response) THEN response \o disclaimer ELSE response

\* a filter_response that compares without lower()
filter_response_case_sensitive(response, user_message) ==
    IF any_in(medical_keywords, response) \/ any_in(prohibited_phrases, response)
    THEN <<_get_safe_alternative, FALSE>>
    ELSE IF _is_mental_health_topic(lower(response))
    THEN <<_add_disclaimer(response), TRUE>>
    ELSE <<response, TRUE>>

\* returns the tuple (filtered_response, is_safe); user_message is not read
filter_response(response, user_message) ==
    LET response_lower == lower(response)
        contains_medical == any_in(medical_keywords, response_lower)
        contains_prohibited == any_in(prohibited_phrases, response_lower)
    IN  IF contains_medical \/ contains_prohibited
        THEN <<_get_safe_alternative, FALSE>>
        ELSE IF _is_mental_health_topic(response_lower)
        THEN <<_add_disclaimer(response), TRUE>>
        ELSE <<response, TRUE>>
\* sanitize_output: the three placeholders
LinkRemoved ==
    <<"[","l","i","n","k"," ","r","e","m","o","v","e","d","]">>

EmailRemoved ==
    <<"[","e","m","a","i","l"," ","r","e","m","o","v","e","d","]">>

PhoneRemoved ==
    <<"[","p","h","o","n","e"," ","r","e","m","o","v","e","d","]">>

\* sanitize_output: http[s]?://
SchemeHttp ==
    <<"h","t","t","p",":","/","/">>

SchemeHttps ==
    <<"h","t","t","p","s",":","/","/">>

Letters == set(LowerLetters) \cup set(UpperLetters)

\* [a-zA-Z] | [0-9] | [$-_@.&+] | [!*\\(\\),] | %XX: "$-_" is the range from "$"
\* to "_", which holds "%" and the hexadecimal digits too
UrlChars ==
    Letters \cup Digits \cup
    {"$", "%", "&", "'", "(", ")", "*", "+", ",", "-", ".", "/", ":", ";", "<", "=",
     ">", "?", "@", "[", "\\", "]", "^", "_", "!"}

\* [A-Za-z0-9._%+-]
EmailLocalChars == Letters \cup Digits \cup {".", "_", "%", "+", "-"}

\* [A-Za-z0-9.-]
EmailDomainChars == Letters \cup Digits \cup {".", "-"}

\* [A-Z|a-z]
EmailTldChars == Letters \cup {"|"}

\* [-.\s]
PhoneSeparators == {"-", "."} \cup Whitespace

\* \w
WordChars == Letters \cup Digits \cup {"_"}

char_in(s, i, class) == i >= 1 /\ i <= Len(s) /\ s[i] \in class

starts_with(s, i, k) ==
    /\ i + Len(k) - 1 <= Len(s)
    /\ \A j \in 1..Len(k) : s[i + j - 1] = k[j]

\* the last index of the longest run of class characters that starts at i
\* (i - 1 when s[i] is not in the class)
run_end(s, i, class) ==
    LET stops == {j \in i..Len(s) : s[j] \notin class}
    IN  IF stops = {} THEN Len(s)
        ELSE (CHOOSE j \in stops : \A k \in stops : j <= k) - 1

\* \b between s[i-1] and s[i]
word_boundary(s, i) == char_in(s, i - 1, WordChars) # char_in(s, i, WordChars)

\* Each *_match(s, i) is the last index of the regex's match starting at i,
\* as the backtracking matcher finds it, or 0 when there is none.
url_match(s, i) ==
    LET p == IF starts_with(s, i, SchemeHttps) THEN i + Len(SchemeHttps)
             ELSE IF starts_with(s, i, SchemeHttp) THEN i + Len(SchemeHttp)
             ELSE 0
    IN  IF p > 0 /\ char_in(s, p, UrlChars) THEN run_end(s, p, UrlChars) ELSE 0

email_match(s, i) ==
    IF ~(char_in(s, i, EmailLocalChars) /\ word_boundary(s, i)) THEN 0
    ELSE LET at == run_end(s, i, EmailLocalChars) + 1
         IN  IF ~char_in(s, at, {"@"}) THEN 0
             ELSE LET m == run_end(s, at + 1, EmailDomainChars)
                      \* <<d, t>>: the domain ends at d, the top-level part at t
                      ends == {x \in ((at + 1)..m) \X ((at + 4)..Len(s)) :
                                  /\ char_in(s, x[1] + 1, {"."})
                                  /\ x[2] >= x[1] + 3
                                  /\ x[2] <= run_end(s, x[1] + 2, EmailTldChars)
                                  /\ word_boundary(s, x[2] + 1)}
                  IN  IF ends = {} THEN 0
                      ELSE (CHOOSE x \in ends : \A y \in ends :
                                \/ y[1] < x[1]
                                \/ y[1] = x[1] /\ y[2] <= x[2])[2]

digits_at(s, i, n) == \A j \in i..(i + n - 1) : char_in(s, j, Digits)

skip_if(s, i, class) == IF char_in(s, i, class) THEN i + 1 ELSE i

\* \(?\d{3}\)?[-.\s]?\d{3}[-.\s]?\d{4} from p
phone_tail(s, p) ==
    LET q == skip_if(s, p, {"("})
        r == skip_if(s, skip_if(s, q + 3, {")"}), PhoneSeparators)
        u == skip_if(s, r + 3, PhoneSeparators)
    IN  IF digits_at(s, q, 3) /\ digits_at(s, r, 3) /\ digits_at(s, u, 4)
        THEN u + 3 ELSE 0

\* (\+\d{1,3}[-.\s]?)? then the rest
phone_match(s, i) ==
    IF char_in(s, i, {"+"})
    THEN LET via(n) == IF digits_at(s, i + 1, n)
                       THEN phone_tail(s, skip_if(s, i + 1 + n, PhoneSeparators)) ELSE 0
         IN  IF via(3) > 0 THEN via(3)
             ELSE IF via(2) > 0 THEN via(2)
             ELSE via(1)
    ELSE phone_tail(s, i)

\* the last index of the match of a pattern that starts at i (below i: no match)
match_end(pattern, s, i) ==
    CASE pattern = "url" -> url_match(s, i)
      [] pattern = "email" -> email_match(s, i)
      [] pattern = "phone" -> phone_match(s, i)

\* re.sub(pattern, repl, s) from index i on: leftmost matches, not overlapping
RECURSIVE re_sub(_, _, _, _)
re_sub(pattern, repl, s, i) ==
    LET starts == {j \in i..Len(s) : match_end(pattern, s, j) >= j}
    IN  IF starts = {} THEN SubSeq(s, i, Len(s))
        ELSE LET j == CHOOSE x \in starts : \A y \in starts : x <= y
             IN  SubSeq(s, i, j - 1) \o repl
                    \o re_sub(pattern, repl, s, match_end(pattern, s, j) + 1)

sanitize_output(text) ==
    LET no_urls == re_sub("url", LinkRemoved, text, 1)
        no_emails == re_sub("email", EmailRemoved, no_urls, 1)
    IN  re_sub("phone", PhoneRemoved, no_emails, 1)
\* EmotionDetector.emotion_keywords: the categories in declaration order
EmotionCategories == <<"sad", "anxious", "angry", "happy", "fearful", "confused">>

\* EmotionDetector.emotion_keywords
emotion_keywords ==
    [e \in {"sad", "anxious", "angry", "happy", "fearful", "confused"} |->
      CASE e = "sad" -> <<
            <<"s","a","d">>,
            <<"d","e","p","r","e","s","s","e","d">>,
            <<"d","o","w","n">>,
            <<"u","n","h","a","p","p","y">>,
            <<"m","i","s","e","r","a","b","l","e">>,
            <<"c","r","y","i","n","g">>,
            <<"t","e","a","r","s">>,
            <<"h","o","p","e","l","e","s","s">>,
            <<"l","o","n","e","l","y">>,
            <<"e","m","p","t","y">>,
            <<"h","u","r","t">>,
            <<"p","a","i","n">>,
            <<"g","r","i","e","f">>,
            <<"l","o","s","s">>,
            <<"h","e","a","r","t","b","r","o","k","e","n">>,
            <<"d","e","v","a","s","t","a","t","e","d">> >>
        [] e = "anxious" -> <<
            <<"a","n","x","i","o","u","s">>,
            <<"w","o","r","r","i","e","d">>,
            <<"n","e","r","v","o","u","s">>,
            <<"s","t","r","e","s","s">>,
            <<"p","a","n","i","c">>,
            <<"f","e","a","r">>,
            <<"s","c","a","r","e","d">>,
            <<"o","v","e","r","w","h","e","l","m","e","d">>,
            <<"t","e","n","s","e">>,
            <<"r","e","s","t","l","e","s","s">>,
            <<"u","n","e","a","s","y">>,
            <<"t","e","r","r","i","f","i","e","d">>,
            <<"a","f","r","a","i","d">>,
            <<"c","o","n","c","e","r","n">>,
            <<"d","r","e","a","d">> >>
        [] e = "angry" -> <<
            <<"a","n","g","r","y">>,
            <<"m","a","d">>,
            <<"f","u","r","i","o","u","s">>,
            <<"a","n","n","o","y","e","d">>,
            <<"i","r","r","i","t","a","t","e","d">>,
            <<"f","r","u","s","t","r","a","t","e","d">>,
            <<"r","a","g","e">>,
            <<"u","p","s","e","t">>,
            <<"h","a","t","e">>,
            <<"p","i","s","s","e","d">>,
            <<"i","n","f","u","r","i","a","t","e","d">>,
            <<"r","e","s","e","n","t","f","u","l">> >>
        [] e = "happy" -> <<
            <<"h","a","p","p","y">>,
            <<"j","o","y">>,
            <<"e","x","c","i","t","e","d">>,
            <<"g","r","e","a","t">>,
            <<"w","o","n","d","e","r","f","u","l">>,
            <<"a","m","a","z","i","n","g">>,
            <<"l","o","v","e">>,
            <<"g","r","a","t","e","f","u","l">>,
            <<"b","l","e","s","s","e","d">>,
            <<"c","o","n","t","e","n","t">>,
            <<"c","h","e","e","r","f","u","l">>,
            <<"d","e","l","i","g","h","t","e","d">>,
            <<"p","l","e","a","s","e","d">>,
            <<"g","l","a","d">>,
            <<"f","a","n","t","a","s","t","i","c">> >>
        [] e = "fearful" -> <<
            <<"f","e","a","r">>,
            <<"s","c","a","r","e","d">>,
            <<"a","f","r","a","i","d">>,
            <<"t","e","r","r","i","f","i","e","d">>,
            <<"f","r","i","g","h","t","e","n","e","d">>,
            <<"h","o","r","r","o","r">>,
            <<"p","a","n","i","c">>,
            <<"d","r","e","a","d">>,
            <<"p","h","o","b","i","a">>,
            <<"n","i","g","h","t","m","a","r","e">> >>
        [] e = "confused" -> <<
            <<"c","o","n","f","u","s","e","d">>,
            <<"l","o","s","t">>,
            <<"u","n","s","u","r","e">>,
            <<"d","o","n","'","t"," ","k","n","o","w">>,
            <<"u","n","c","e","r","t","a","i","n">>,
            <<"p","u","z","z","l","e","d">>,
            <<"m","i","x","e","d">>,
            <<"c","o","n","f","l","i","c","t","e","d">> >>]

\* EmotionDetector.intensity_words["high"]
intensity_words_high ==
    <<
      <<"v","e","r","y">>,
      <<"e","x","t","r","e","m","e","l","y">>,
      <<"i","n","c","r","e","d","i","b","l","y">>,
      <<"s","o">>,
      <<"r","e","a","l","l","y">>,
      <<"a","b","s","o","l","u","t","e","l","y">>
    >>

\* EmotionDetector.intensity_words["low"]
intensity_words_low ==
    <<
      <<"a"," ","b","i","t">>,
      <<"s","l","i","g","h","t","l","y">>,
      <<"s","o","m","e","w","h","a","t">>,
      <<"k","i","n","d"," ","o","f">>,
      <<"s","o","r","t"," ","o","f">>
    >>

\* detect_emotion: positive_words of the keyword fallback
positive_words ==
    <<
      <<"h","a","p","p","y">>,
      <<"j","o","y">>,
      <<"g","o","o","d">>,
      <<"g","r","e","a","t">>,
      <<"w","o","n","d","e","r","f","u","l">>,
      <<"a","m","a","z","i","n","g">>,
      <<"l","o","v","e">>,
      <<"g","l","a","d">>,
      <<"f","a","n","t","a","s","t","i","c">>,
      <<"p","l","e","a","s","e","d">>,
      <<"e","x","c","i","t","e","d">>,
      <<"g","r","a","t","e","f","u","l">>
    >>

\* detect_emotion: negative_words of the keyword fallback
negative_words ==
    <<
      <<"s","a","d">>,
      <<"d","e","p","r","e","s","s","e","d">>,
      <<"b","a","d">>,
      <<"t","e","r","r","i","b","l","e">>,
      <<"a","w","f","u","l">>,
      <<"h","a","t","e">>,
      <<"a","n","g","r","y">>,
      <<"m","i","s","e","r","a","b","l","e">>,
      <<"l","o","n","e","l","y">>,
      <<"u","p","s","e","t">>,
      <<"a","n","x","i","o","u","s">>,
      <<"w","o","r","r","i","e","d">>
    >>

(***************************************************************************)
(* backend/emotion_detector.py                                             *)
(*                                                                         *)
(* A float is kept exact: polarity is a fraction [num, den] with den > 0,  *)
(* subjectivity and the rounded outputs are integers in hundredths.        *)
(***************************************************************************)
\* sum(1 for w in words if w in text)
count_matches(words, text) == Cardinality({i \in 1..Len(words) : str_in(words[i], text)})

Fraction(n, d) == [num |-> n, den |-> d]

\* round(x, 2) of the fraction n/d, in hundredths: n/d is a ratio of small
\* integers, whose ties are multiples of 1/8, exact doubles, rounded to even
round2(n, d) ==
    LET a == IF n < 0 THEN -n ELSE n
        q == (100 * a) \div d
        r == (100 * a) % d
        up == IF 2 * r > d THEN 1 ELSE IF 2 * r < d THEN 0 ELSE q % 2
        m == q + up
    IN  IF n < 0 THEN -m ELSE m

\* the polarity of the keyword fallback (HAS_TEXTBLOB is False)
fallback_polarity(text_lower) ==
    LET pos_count == count_matches(positive_words, text_lower)
        neg_count == count_matches(negative_words, text_lower)
    IN  IF pos_count + neg_count = 0 THEN Fraction(0, 1)
        ELSE Fraction(pos_count - neg_count, pos_count + neg_count)

\* emotion_scores: the categories with a match, in declaration order
emotion_scores(text_lower) ==
    SelectSeq(EmotionCategories,
              LAMBDA e : count_matches(emotion_keywords[e], text_lower) > 0)

\* a max that returns the last of the categories with the highest score
max_score_emotion_last(text_lower) ==
    LET scored == emotion_scores(text_lower)
        score(e) == count_matches(emotion_keywords[e], text_lower)
        last == CHOOSE i \in 1..Len(scored) :
                    /\ \A j \in 1..Len(scored) : score(scored[j]) <= score(scored[i])
                    /\ \A j \in (i + 1)..Len(scored) : score(scored[j]) < score(scored[i])
    IN  scored[last]

\* max(emotion_scores, key=emotion_scores.get): the first category, in the
\* dict's order, whose score no other exceeds
max_score_emotion(text_lower) ==
    LET scored == emotion_scores(text_lower)
        score(e) == count_matches(emotion_keywords[e], text_lower)
        first == CHOOSE i \in 1..Len(scored) :
                    /\ \A j \in 1..Len(scored) : score(scored[j]) <= score(scored[i])
                    /\ \A j \in 1..(i - 1) : score(scored[j]) < score(scored[i])
    IN  scored[first]

\* text is the lowercased message detect_emotion passes; subjectivity in hundredths.
\* The score is compared times 200 * max(len(text), 1).
_calculate_intensity(text, subjectivity) ==
    LET high_count == count_matches(intensity_words_high, text)
        low_count == count_matches(intensity_words_low, text)
        n == IF Len(text) > 1 THEN Len(text) ELSE 1
        caps == Cardinality({i \in 1..Len(text) : IsUpper(text[i])})
        exclamation_count == count(text, "!")
        score200n == 400 * high_count * n + 300 * exclamation_count * n
                     + 2000 * caps + 4 * subjectivity * n - 400 * low_count * n
    IN  IF score200n > 1000 * n THEN "high"
        ELSE IF score200n > 400 * n THEN "medium"
        ELSE "low"

\* scorer: what the sentiment scorer gives for the text:
\*   [available |-> FALSE]                       HAS_TEXTBLOB is False
\*   [available |-> TRUE, raised |-> TRUE]       TextBlob raised
\*   [available |-> TRUE, raised |-> FALSE, polarity, subjectivity]  in hundredths
detect_emotion(text, scorer) ==
    LET text_lower == lower(text)
        polarity == IF ~scorer.available THEN fallback_polarity(text_lower)
                    ELSE IF scorer.raised THEN Fraction(0, 1)
                    ELSE Fraction(scorer.polarity, 100)
        subjectivity == IF scorer.available /\ ~scorer.raised
                        THEN scorer.subjectivity ELSE 0
        has_scores == Len(emotion_scores(text_lower)) > 0
        primary_emotion ==
            IF has_scores THEN max_score_emotion(text_lower)
            ELSE IF 10 * polarity.num > 3 * polarity.den THEN "happy"
            ELSE IF 10 * polarity.num < -3 * polarity.den THEN "sad"
            ELSE "neutral"
        confidence ==
            IF has_scores
            THEN LET c == 25 * count_matches(emotion_keywords[primary_emotion], text_lower)
                 IN  IF c < 100 THEN c ELSE 100
            ELSE IF primary_emotion = "happy" THEN round2(polarity.num, polarity.den)
            ELSE IF primary_emotion = "sad" THEN round2(-polarity.num, polarity.den)
            ELSE 50
        intensity == _calculate_intensity(text_lower, subjectivity)
        sentiment == IF 10 * polarity.num > polarity.den THEN "positive"
                     ELSE IF 10 * polarity.num < -polarity.den THEN "negative"
                     ELSE "neutral"
    IN  [primary_emotion |-> primary_emotion,
         confidence |-> confidence,
         sentiment |-> sentiment,
         intensity |-> intensity,
         polarity |-> round2(polarity.num, polarity.den),
         subjectivity |-> subjectivity]

\* EmotionDetector.get_emotion_emoji: the emoji is named, not spelled
get_emotion_emoji(emotion) ==
    IF emotion \in {"sad", "anxious", "angry", "happy", "fearful", "confused", "neutral"}
    THEN <<"emoji", emotion>> ELSE <<"emoji", "thought balloon">>

\* EmotionDetector.get_emotion_color
get_emotion_color(emotion) ==
    CASE emotion = "sad" -> "#6B8E23"
      [] emotion = "anxious" -> "#FF8C00"
      [] emotion = "angry" -> "#DC143C"
      [] emotion = "happy" -> "#32CD32"
      [] emotion = "fearful" -> "#9370DB"
      [] emotion = "confused" -> "#4682B4"
      [] emotion = "neutral" -> "#808080"
      [] OTHER -> "#808080"

(***************************************************************************)
(* utils/prompts.py                                                        *)
(***************************************************************************)
\* the characters of an emotion label, as an f-string formats it
EmotionLabel(emotion) ==
    CASE emotion = "sad" -> <<"s","a","d">>
      [] emotion = "anxious" -> <<"a","n","x","i","o","u","s">>
      [] emotion = "angry" -> <<"a","n","g","r","y">>
      [] emotion = "happy" -> <<"h","a","p","p","y">>
      [] emotion = "fearful" -> <<"f","e","a","r","f","u","l">>
      [] emotion = "confused" -> <<"c","o","n","f","u","s","e","d">>
      [] emotion = "neutral" -> <<"n","e","u","t","r","a","l">>
      [] emotion = "excited" -> <<"e","x","c","i","t","e","d">>
\* PromptBuilder.system_prompt
system_prompt ==
    <<"Y","o","u"," ","a","r","e"," ","a"," ","c","o","m","p","a","s","s","i","o","n","a","t",
      "e"," ","m","e","n","t","a","l"," ","w","e","l","l","n","e","s","s"," ","c","o","m","p",
      "a","n","i","o","n","."," ","Y","o","u","r"," ","r","o","l","e"," ","i","s"," ","t","o",
      ":","\n","\n","-"," ","L","i","s","t","e","n"," ","a","c","t","i","v","e","l","y"," ","a",
      "n","d"," ","v","a","l","i","d","a","t","e"," ","e","m","o","t","i","o","n","s","\n","-",
      " ","P","r","o","v","i","d","e"," ","s","u","p","p","o","r","t","i","v","e",","," ","n",
      "o","n","-","j","u","d","g","m","e","n","t","a","l"," ","r","e","s","p","o","n","s","e",
      "s","\n","-"," ","O","f","f","e","r"," ","g","e","n","e","r","a","l"," ","w","e","l","l",
      "n","e","s","s"," ","t","i","p","s"," ","a","n","d"," ","c","o","p","i","n","g"," ","s",
      "t","r","a","t","e","g","i","e","s","\n","-"," ","E","n","c","o","u","r","a","g","e"," ",
      "s","e","l","f","-","c","a","r","e"," ","a","n","d"," ","h","e","a","l","t","h","y"," ",
      "h","a","b","i","t","s","\n","-"," ","N","E","V","E","R"," ","d","i","a","g","n","o","s",
      "e"," ","o","r"," ","p","r","o","v","i","d","e"," ","m","e","d","i","c","a","l"," ","a",
      "d","v","i","c","e","\n","-"," ","N","E","V","E","R"," ","c","l","a","i","m"," ","t","o",
      " ","b","e"," ","a"," ","t","h","e","r","a","p","i","s","t"," ","o","r"," ","m","e","d",
      "i","c","a","l"," ","p","r","o","f","e","s","s","i","o","n","a","l","\n","-"," ","R","e",
      "d","i","r","e","c","t"," ","t","o"," ","p","r","o","f","e","s","s","i","o","n","a","l",
      " ","h","e","l","p"," ","w","h","e","n"," ","a","p","p","r","o","p","r","i","a","t","e",
      "\n","\n","G","u","i","d","e","l","i","n","e","s",":","\n","-"," ","K","e","e","p"," ",
      "r","e","s","p","o","n","s","e","s"," ","w","a","r","m",","," ","e","m","p","a","t","h",
      "e","t","i","c",","," ","a","n","d"," ","c","o","n","c","i","s","e"," ","(","2","-","4",
      " ","s","e","n","t","e","n","c","e","s",")","\n","-"," ","U","s","e"," ","\"","I"," ","u",
      "n","d","e","r","s","t","a","n","d","\"",","," ","\"","T","h","a","t"," ","s","o","u","n",
      "d","s"," ","d","i","f","f","i","c","u","l","t","\"",","," ","\"","Y","o","u","r"," ","f",
      "e","e","l","i","n","g","s"," ","a","r","e"," ","v","a","l","i","d","\"","\n","-"," ","A",
      "s","k"," ","t","h","o","u","g","h","t","f","u","l"," ","f","o","l","l","o","w","-","u",
      "p"," ","q","u","e","s","t","i","o","n","s","\n","-"," ","S","u","g","g","e","s","t"," ",
      "h","e","a","l","t","h","y"," ","c","o","p","i","n","g"," ","m","e","c","h","a","n","i",
      "s","m","s","\n","-"," ","A","v","o","i","d"," ","c","l","i","n","i","c","a","l"," ","l",
      "a","n","g","u","a","g","e","\n","-"," ","B","e"," ","a","u","t","h","e","n","t","i","c",
      " ","a","n","d"," ","h","u","m","a","n","\n","\n","I","f"," ","s","o","m","e","o","n","e",
      " ","i","s"," ","i","n"," ","c","r","i","s","i","s",","," ","i","m","m","e","d","i","a",
      "t","e","l","y"," ","s","u","g","g","e","s","t"," ","p","r","o","f","e","s","s","i","o",
      "n","a","l"," ","c","r","i","s","i","s"," ","r","e","s","o","u","r","c","e","s",".">>

\* PromptBuilder._get_emotion_context: emotion_guidance
emotion_guidance ==
    [e \in {"sad", "anxious", "angry", "happy", "fearful", "confused", "neutral"} |->
      CASE e = "sad" ->
            <<"T","h","e"," ","u","s","e","r"," ","i","s"," ","f","e","e","l","i","n","g"," ",
              "s","a","d","."," ","A","c","k","n","o","w","l","e","d","g","e"," ","t","h","e",
              "i","r"," ","p","a","i","n",","," ","v","a","l","i","d","a","t","e"," ","t","h",
              "e","i","r"," ","f","e","e","l","i","n","g","s",","," ","\n"," "," "," "," "," ",
              " "," "," "," "," "," "," ","a","n","d"," ","g","e","n","t","l","y"," ","e","n",
              "c","o","u","r","a","g","e"," ","t","h","e","m"," ","w","i","t","h","o","u","t",
              " ","d","i","s","m","i","s","s","i","n","g"," ","t","h","e","i","r"," ","e","m",
              "o","t","i","o","n","s","."," ","S","u","g","g","e","s","t"," ","s","m","a","l",
              "l",","," ","\n"," "," "," "," "," "," "," "," "," "," "," "," ","m","a","n","a",
              "g","e","a","b","l","e"," ","s","e","l","f","-","c","a","r","e"," ","a","c","t",
              "i","v","i","t","i","e","s",".">>
        [] e = "anxious" ->
            <<"T","h","e"," ","u","s","e","r"," ","i","s"," ","f","e","e","l","i","n","g"," ",
              "a","n","x","i","o","u","s","."," ","H","e","l","p"," ","t","h","e","m"," ","f",
              "e","e","l"," ","g","r","o","u","n","d","e","d","."," ","S","u","g","g","e","s",
              "t"," ","\n"," "," "," "," "," "," "," "," "," "," "," "," ","b","r","e","a","t",
              "h","i","n","g"," ","e","x","e","r","c","i","s","e","s"," ","o","r"," ","g","r",
              "o","u","n","d","i","n","g"," ","t","e","c","h","n","i","q","u","e","s","."," ",
              "R","e","m","i","n","d"," ","t","h","e","m"," ","t","h","i","s"," ","f","e","e",
              "l","i","n","g"," ","i","s"," ","t","e","m","p","o","r","a","r","y",".">>
        [] e = "angry" ->
            <<"T","h","e"," ","u","s","e","r"," ","i","s"," ","f","e","e","l","i","n","g"," ",
              "a","n","g","r","y","."," ","V","a","l","i","d","a","t","e"," ","t","h","a","t",
              " ","a","n","g","e","r"," ","i","s"," ","a"," ","n","o","r","m","a","l"," ","e",
              "m","o","t","i","o","n","."," ","\n"," "," "," "," "," "," "," "," "," "," "," ",
              " ","H","e","l","p"," ","t","h","e","m"," ","i","d","e","n","t","i","f","y"," ",
              "w","h","a","t"," ","t","r","i","g","g","e","r","e","d"," ","i","t","."," ","S",
              "u","g","g","e","s","t"," ","h","e","a","l","t","h","y"," ","w","a","y","s"," ",
              "t","o"," ","p","r","o","c","e","s","s"," ","t","h","e","s","e"," ","f","e","e",
              "l","i","n","g","s",".">>
        [] e = "happy" ->
            <<"T","h","e"," ","u","s","e","r"," ","i","s"," ","f","e","e","l","i","n","g"," ",
              "h","a","p","p","y","!"," ","C","e","l","e","b","r","a","t","e"," ","w","i","t",
              "h"," ","t","h","e","m","."," ","A","s","k"," ","w","h","a","t"," ","c","o","n",
              "t","r","i","b","u","t","e","d"," ","\n"," "," "," "," "," "," "," "," "," "," ",
              " "," ","t","o"," ","t","h","e","s","e"," ","p","o","s","i","t","i","v","e"," ",
              "f","e","e","l","i","n","g","s","."," ","E","n","c","o","u","r","a","g","e"," ",
              "t","h","e","m"," ","t","o"," ","s","a","v","o","r"," ","t","h","i","s"," ","m",
              "o","m","e","n","t",".">>
        [] e = "fearful" ->
            <<"T","h","e"," ","u","s","e","r"," ","i","s"," ","f","e","e","l","i","n","g"," ",
              "f","e","a","r","f","u","l","."," ","P","r","o","v","i","d","e"," ","r","e","a",
              "s","s","u","r","a","n","c","e","."," ","H","e","l","p"," ","t","h","e","m"," ",
              "f","e","e","l"," ","\n"," "," "," "," "," "," "," "," "," "," "," "," ","s","a",
              "f","e","."," ","B","r","e","a","k"," ","d","o","w","n"," ","t","h","e","i","r",
              " ","f","e","a","r","s"," ","i","n","t","o"," ","m","a","n","a","g","e","a","b",
              "l","e"," ","p","i","e","c","e","s","."," ","R","e","m","i","n","d"," ","t","h",
              "e","m"," ","o","f"," ","t","h","e","i","r"," ","s","t","r","e","n","g","t","h",
              ".">>
        [] e = "confused" ->
            <<"T","h","e"," ","u","s","e","r"," ","i","s"," ","f","e","e","l","i","n","g"," ",
              "c","o","n","f","u","s","e","d","."," ","H","e","l","p"," ","t","h","e","m"," ",
              "o","r","g","a","n","i","z","e"," ","t","h","e","i","r"," ","t","h","o","u","g",
              "h","t","s","."," ","\n"," "," "," "," "," "," "," "," "," "," "," "," ","A","s",
              "k"," ","c","l","a","r","i","f","y","i","n","g"," ","q","u","e","s","t","i","o",
              "n","s","."," ","B","r","e","a","k"," ","t","h","i","n","g","s"," ","d","o","w",
              "n"," ","s","t","e","p"," ","b","y"," ","s","t","e","p",".">>
        [] e = "neutral" ->
            <<"E","n","g","a","g","e"," ","w","a","r","m","l","y"," ","a","n","d"," ","n","a",
              "t","u","r","a","l","l","y","."," ","A","s","k"," ","o","p","e","n","-","e","n",
              "d","e","d"," ","q","u","e","s","t","i","o","n","s"," ","t","o"," ","u","n","d",
              "e","r","s","t","a","n","d"," ","\n"," "," "," "," "," "," "," "," "," "," "," ",
              " ","h","o","w"," ","t","h","e","y","'","r","e"," ","r","e","a","l","l","y"," ",
              "f","e","e","l","i","n","g",".">>]
\* build_prompt: the f-string pieces
PromptEmotionHeader ==
    <<"\n","C","u","r","r","e","n","t"," ","u","s","e","r"," ","e","m","o","t","i","o","n",":",
      " ">>

PromptHistoryHeader ==
    <<"\n","C","o","n","v","e","r","s","a","t","i","o","n"," ","h","i","s","t","o","r","y",":",
      "\n">>

PromptUserHeader ==
    <<"\n","U","s","e","r",":"," ">>

PromptTrailer ==
    <<"\n","\n","R","e","s","p","o","n","d"," ","w","i","t","h"," ","e","m","p","a","t","h","y",
      " ","a","n","d"," ","s","u","p","p","o","r","t",":">>

\* _format_history: the role names and the separator
RoleUser ==
    <<"U","s","e","r">>

RoleAssistant ==
    <<"A","s","s","i","s","t","a","n","t">>

RoleSeparator ==
    <<":"," ">>

\* "\n".join(parts)
RECURSIVE join_lines(_)
join_lines(parts) ==
    IF Len(parts) = 0 THEN <<>>
    ELSE IF Len(parts) = 1 THEN parts[1]
    ELSE parts[1] \o <<"\n">> \o join_lines(Tail(parts))

_get_emotion_context(emotion) ==
    IF emotion \in DOMAIN emotion_guidance
    THEN emotion_guidance[emotion] ELSE emotion_guidance["neutral"]

\* s[:n]
str_prefix(s, n) == IF Len(s) > n THEN SubSeq(s, 1, n) ELSE s

\* lst[-n:] for n >= 0 (lst[-0:] is the whole list)
list_suffix(lst, n) ==
    IF n = 0 \/ Len(lst) <= n THEN lst ELSE SubSeq(lst, Len(lst) - n + 1, Len(lst))

\* a _format_history that keeps every message whole
_format_history_untruncated(history, max_turns) ==
    LET recent_history == IF Len(history) > max_turns * 2
                          THEN list_suffix(history, max_turns * 2) ELSE history
        formatted == [i \in 1..Len(recent_history) |->
                        (IF recent_history[i].role = "user" THEN RoleUser ELSE RoleAssistant)
                        \o RoleSeparator \o recent_history[i].content]
    IN  join_lines(formatted)

_format_history(history, max_turns) ==
    LET recent_history == IF Len(history) > max_turns * 2
                          THEN list_suffix(history, max_turns * 2) ELSE history
        formatted == [i \in 1..Len(recent_history) |->
                        (IF recent_history[i].role = "user" THEN RoleUser ELSE RoleAssistant)
                        \o RoleSeparator \o str_prefix(recent_history[i].content, 200)]
    IN  join_lines(formatted)

\* conversation_history is a list (None and [] are both falsy)
build_prompt(user_message, emotion, conversation_history) ==
    LET emotion_context == _get_emotion_context(emotion)
        prompt_parts ==
            <<system_prompt,
              PromptEmotionHeader \o EmotionLabel(emotion) \o <<"\n">> \o emotion_context>>
            \o (IF Len(conversation_history) > 0
                THEN <<PromptHistoryHeader \o _format_history(conversation_history, 3)>>
                ELSE <<>>)
            \o <<PromptUserHeader \o user_message \o PromptTrailer>>
    IN  join_lines(prompt_parts)

\* a build_prompt whose _format_history pops each message it formats off the list
history_after_build_prompt_popped(conversation_history) == <<>>

\* the list handed to build_prompt as it is once build_prompt has returned:
\* "if conversation_history" and len() read it, history[-(max_turns * 2):] and
\* msg["content"][:200] build new objects, and nothing is assigned into it
history_after_build_prompt(conversation_history) == conversation_history
\* LLMHandler._fallback_response: fallback_responses
fallback_responses ==
    [e \in {"sad", "anxious", "angry", "happy", "neutral", "fearful"} |->
      CASE e = "sad" -> <<
            <<"I"," ","h","e","a","r"," ","y","o","u",","," ","a","n","d"," ","i","t","'","s",
              " ","c","o","m","p","l","e","t","e","l","y"," ","o","k","a","y"," ","t","o"," ",
              "f","e","e","l"," ","t","h","i","s"," ","w","a","y"," ","r","i","g","h","t"," ",
              "n","o","w",".">>,
            <<"T","h","e","s","e"," ","d","i","f","f","i","c","u","l","t"," ","e","m","o","t",
              "i","o","n","s"," ","a","r","e"," ","t","e","m","p","o","r","a","r","y",","," ",
              "e","v","e","n"," ","t","h","o","u","g","h"," ","t","h","e","y"," ","f","e","e",
              "l"," ","h","e","a","v","y",".">>,
            <<"Y","o","u","'","r","e"," ","s","t","r","o","n","g","e","r"," ","t","h","a","n",
              " ","y","o","u"," ","r","e","a","l","i","z","e","."," ","L","e","t","'","s"," ",
              "t","a","k","e"," ","t","h","i","s"," ","o","n","e"," ","m","o","m","e","n","t",
              " ","a","t"," ","a"," ","t","i","m","e",".">>,
            <<"W","h","a","t"," ","y","o","u","'","r","e"," ","f","e","e","l","i","n","g"," ",
              "i","s"," ","v","a","l","i","d","."," ","W","o","u","l","d"," ","i","t"," ","h",
              "e","l","p"," ","t","o"," ","t","a","l","k"," ","a","b","o","u","t"," ","w","h",
              "a","t","'","s"," ","t","r","o","u","b","l","i","n","g"," ","y","o","u","?">>,
            <<"S","o","m","e","t","i","m","e","s"," ","w","e"," ","a","l","l"," ","n","e","e",
              "d"," ","s","u","p","p","o","r","t","."," ","I","'","m"," ","h","e","r","e"," ",
              "t","o"," ","l","i","s","t","e","n"," ","w","i","t","h","o","u","t"," ","j","u",
              "d","g","m","e","n","t",".">> >>
        [] e = "anxious" -> <<
            <<"A","n","x","i","e","t","y"," ","c","a","n"," ","f","e","e","l"," ","o","v","e",
              "r","w","h","e","l","m","i","n","g",","," ","b","u","t"," ","r","e","m","e","m",
              "b","e","r",":"," ","y","o","u","'","v","e"," ","h","a","n","d","l","e","d"," ",
              "d","i","f","f","i","c","u","l","t"," ","m","o","m","e","n","t","s"," ","b","e",
              "f","o","r","e",".">>,
            <<"T","r","y"," ","t","h","i","s",":"," ","b","r","e","a","t","h","e"," ","i","n",
              " ","f","o","r"," ","4"," ","c","o","u","n","t","s",","," ","h","o","l","d"," ",
              "f","o","r"," ","4",","," ","b","r","e","a","t","h","e"," ","o","u","t"," ","f",
              "o","r"," ","6","."," ","L","e","t","'","s"," ","s","l","o","w"," ","t","h","i",
              "n","g","s"," ","d","o","w","n",".">>,
            <<"W","h","a","t","'","s"," ","o","n","e"," ","s","m","a","l","l"," ","t","h","i",
              "n","g"," ","y","o","u"," ","c","o","u","l","d"," ","c","o","n","t","r","o","l",
              " ","r","i","g","h","t"," ","n","o","w","?"," ","S","o","m","e","t","i","m","e",
              "s"," ","f","o","c","u","s","i","n","g"," ","h","e","l","p","s",".">>,
            <<"Y","o","u","r"," ","w","o","r","r","i","e","s"," ","a","r","e"," ","r","e","a",
              "l",","," ","b","u","t"," ","n","o","t"," ","e","v","e","r","y","t","h","i","n",
              "g"," ","y","o","u"," ","w","o","r","r","y"," ","a","b","o","u","t"," ","w","i",
              "l","l"," ","h","a","p","p","e","n",".">>,
            <<"G","r","o","u","n","d","i","n","g"," ","y","o","u","r","s","e","l","f"," ","m",
              "i","g","h","t"," ","h","e","l","p","."," ","W","h","a","t","'","s"," ","o","n",
              "e"," ","t","h","i","n","g"," ","y","o","u"," ","c","a","n"," ","s","e","e",",",
              " ","h","e","a","r",","," ","o","r"," ","f","e","e","l"," ","r","i","g","h","t",
              " ","n","o","w","?">> >>
        [] e = "angry" -> <<
            <<"Y","o","u","r"," ","a","n","g","e","r"," ","i","s"," ","v","a","l","i","d",".",
              " ","S","t","r","o","n","g"," ","f","e","e","l","i","n","g","s"," ","m","e","a",
              "n"," ","s","o","m","e","t","h","i","n","g"," ","m","a","t","t","e","r","s"," ",
              "t","o"," ","y","o","u",".">>,
            <<"B","e","f","o","r","e"," ","a","c","t","i","n","g"," ","o","n"," ","t","h","i",
              "s"," ","f","e","e","l","i","n","g",","," ","p","a","u","s","e","."," ","W","h",
              "a","t"," ","d","o"," ","y","o","u"," ","r","e","a","l","l","y"," ","n","e","e",
              "d"," ","r","i","g","h","t"," ","n","o","w","?">>,
            <<"I","t","'","s"," ","o","k","a","y"," ","t","o"," ","b","e"," ","f","r","u","s",
              "t","r","a","t","e","d","."," ","L","e","t","'","s"," ","e","x","p","l","o","r",
              "e"," ","w","h","a","t","'","s"," ","r","e","a","l","l","y"," ","b","o","t","h",
              "e","r","i","n","g"," ","y","o","u",".">>,
            <<"A","n","g","e","r"," ","o","f","t","e","n"," ","m","a","s","k","s"," ","a","n",
              "o","t","h","e","r"," ","e","m","o","t","i","o","n","."," ","C","a","n"," ","y",
              "o","u"," ","d","i","g"," ","d","e","e","p","e","r"," ","i","n","t","o"," ","w",
              "h","a","t"," ","y","o","u","'","r","e"," ","f","e","e","l","i","n","g","?">>,
            <<"T","a","k","i","n","g"," ","a"," ","b","r","e","a","k"," ","m","i","g","h","t",
              " ","h","e","l","p","."," ","W","h","a","t"," ","u","s","u","a","l","l","y"," ",
              "c","a","l","m","s"," ","y","o","u"," ","d","o","w","n","?">> >>
        [] e = "happy" -> <<
            <<"T","h","a","t","'","s"," ","w","o","n","d","e","r","f","u","l","!"," ","I","'",
              "m"," ","g","e","n","u","i","n","e","l","y"," ","g","l","a","d"," ","y","o","u",
              "'","r","e"," ","e","x","p","e","r","i","e","n","c","i","n","g"," ","t","h","e",
              "s","e"," ","p","o","s","i","t","i","v","e"," ","f","e","e","l","i","n","g","s",
              ".">>,
            <<"T","h","i","s"," ","i","s"," ","b","e","a","u","t","i","f","u","l"," ","t","o",
              " ","h","e","a","r","."," ","W","h","a","t","'","s"," ","m","a","k","i","n","g",
              " ","y","o","u"," ","f","e","e","l"," ","s","o"," ","g","o","o","d"," ","r","i",
              "g","h","t"," ","n","o","w","?">>,
            <<"L","e","t","'","s"," ","c","e","l","e","b","r","a","t","e"," ","t","h","i","s",
              " ","m","o","m","e","n","t"," ","w","i","t","h"," ","y","o","u","!"," ","W","h",
              "a","t","'","s"," ","c","o","n","t","r","i","b","u","t","i","n","g"," ","m","o",
              "s","t","?">>,
            <<"S","a","v","o","r"," ","t","h","i","s"," ","f","e","e","l","i","n","g","!"," ",
              "T","h","e","s","e"," ","g","o","o","d"," ","m","o","m","e","n","t","s"," ","a",
              "r","e"," ","i","m","p","o","r","t","a","n","t"," ","a","n","d"," ","w","o","r",
              "t","h"," ","r","e","c","o","g","n","i","z","i","n","g",".">>,
            <<"Y","o","u","r"," ","j","o","y"," ","i","s"," ","c","o","n","t","a","g","i","o",
              "u","s","."," ","K","e","e","p"," ","e","m","b","r","a","c","i","n","g"," ","t",
              "h","e","s","e"," ","p","o","s","i","t","i","v","e"," ","m","o","m","e","n","t",
              "s","!">> >>
        [] e = "neutral" -> <<
            <<"I","'","m"," ","h","e","r","e"," ","a","n","d"," ","l","i","s","t","e","n","i",
              "n","g","."," ","W","h","a","t","'","s"," ","o","n"," ","y","o","u","r"," ","m",
              "i","n","d"," ","t","o","d","a","y","?">>,
            <<"H","o","w"," ","a","r","e"," ","y","o","u"," ","t","r","u","l","y"," ","f","e",
              "e","l","i","n","g"," ","b","e","n","e","a","t","h"," ","t","h","e"," ","s","u",
              "r","f","a","c","e","?">>,
            <<"I","'","m"," ","i","n","t","e","r","e","s","t","e","d"," ","i","n"," ","w","h",
              "a","t"," ","y","o","u"," ","h","a","v","e"," ","t","o"," ","s","h","a","r","e",
              "."," ","W","h","a","t"," ","b","r","i","n","g","s"," ","y","o","u"," ","h","e",
              "r","e","?">>,
            <<"T","a","k","e"," ","y","o","u","r"," ","t","i","m","e","."," ","I","'","m"," ",
              "r","e","a","d","y"," ","t","o"," ","l","i","s","t","e","n"," ","t","o"," ","w",
              "h","a","t","e","v","e","r"," ","y","o","u"," ","w","a","n","t"," ","t","o"," ",
              "e","x","p","r","e","s","s",".">>,
            <<"T","e","l","l"," ","m","e"," ","m","o","r","e","."," ","W","h","a","t"," ","w",
              "o","u","l","d"," ","b","e"," ","m","o","s","t"," ","h","e","l","p","f","u","l",
              " ","t","o"," ","t","a","l","k"," ","a","b","o","u","t"," ","r","i","g","h","t",
              " ","n","o","w","?">> >>
        [] e = "fearful" -> <<
            <<"F","e","a","r"," ","i","s"," ","n","a","t","u","r","a","l",","," ","b","u","t",
              " ","y","o","u","'","r","e"," ","s","a","f","e"," ","r","i","g","h","t"," ","n",
              "o","w"," ","i","n"," ","t","h","i","s"," ","m","o","m","e","n","t",".">>,
            <<"W","h","a","t"," ","y","o","u","'","r","e"," ","a","f","r","a","i","d"," ","o",
              "f"," ","f","e","e","l","s"," ","r","e","a","l",","," ","a","n","d"," ","t","h",
              "a","t","'","s"," ","o","k","a","y","."," ","L","e","t","'","s"," ","f","a","c",
              "e"," ","i","t"," ","t","o","g","e","t","h","e","r",".">>,
            <<"Y","o","u","'","r","e"," ","b","r","a","v","e","r"," ","t","h","a","n"," ","y",
              "o","u"," ","b","e","l","i","e","v","e","."," ","W","h","a","t"," ","s","p","e",
              "c","i","f","i","c","a","l","l","y"," ","i","s"," ","s","c","a","r","i","n","g",
              " ","y","o","u","?">>,
            <<"F","e","a","r"," ","o","f","t","e","n"," ","s","h","r","i","n","k","s"," ","w",
              "h","e","n"," ","w","e"," ","t","a","l","k"," ","a","b","o","u","t"," ","i","t",
              "."," ","I","'","m"," ","h","e","r","e"," ","t","o"," ","l","i","s","t","e","n",
              ".">>,
            <<"R","e","m","e","m","b","e","r",":"," ","y","o","u","'","v","e"," ","o","v","e",
              "r","c","o","m","e"," ","c","h","a","l","l","e","n","g","e","s"," ","b","e","f",
              "o","r","e","."," ","T","h","i","s"," ","i","s"," ","j","u","s","t"," ","o","n",
              "e"," ","m","o","r","e",".">> >>]

\* LLMHandler._fallback_response: context_additions, in declaration order;
\* keywords is the key split at "|"
context_additions ==
    <<
      [keywords |-> <<
            <<"s","l","e","e","p">>,
            <<"t","i","r","e","d">>,
            <<"e","x","h","a","u","s","t","e","d">> >>,
       addition |->
            <<" ","G","e","t","t","i","n","g"," ","q","u","a","l","i","t","y"," ","s","l","e",
              "e","p"," ","c","o","u","l","d"," ","r","e","a","l","l","y"," ","h","e","l","p",
              " ","y","o","u"," ","r","i","g","h","t"," ","n","o","w",".">>],
      [keywords |-> <<
            <<"w","o","r","k">>,
            <<"j","o","b">>,
            <<"b","o","s","s">>,
            <<"c","o","l","l","e","a","g","u","e">> >>,
       addition |->
            <<" ","W","o","r","k"," ","s","t","r","e","s","s"," ","i","s"," ","r","e","a","l",
              "."," ","R","e","m","e","m","b","e","r",","," ","y","o","u"," ","d","e","s","e",
              "r","v","e"," ","b","r","e","a","k","s"," ","a","n","d"," ","b","o","u","n","d",
              "a","r","i","e","s",".">>],
      [keywords |-> <<
            <<"r","e","l","a","t","i","o","n","s","h","i","p">>,
            <<"f","r","i","e","n","d">>,
            <<"f","a","m","i","l","y">>,
            <<"l","o","v","e">> >>,
       addition |->
            <<" ","R","e","l","a","t","i","o","n","s","h","i","p","s"," ","m","a","t","t","e",
              "r","."," ","C","o","m","m","u","n","i","c","a","t","i","o","n"," ","i","s"," ",
              "o","f","t","e","n"," ","t","h","e"," ","f","i","r","s","t"," ","s","t","e","p",
              ".">>],
      [keywords |-> <<
            <<"h","e","a","l","t","h">>,
            <<"s","i","c","k">>,
            <<"p","a","i","n">>,
            <<"h","u","r","t">> >>,
       addition |->
            <<" ","Y","o","u","r"," ","w","e","l","l","b","e","i","n","g"," ","i","s"," ","i",
              "m","p","o","r","t","a","n","t","."," ","T","a","k","e"," ","c","a","r","e"," ",
              "o","f"," ","y","o","u","r","s","e","l","f"," ","f","i","r","s","t",".">>],
      [keywords |-> <<
            <<"m","o","n","e","y">>,
            <<"f","i","n","a","n","c","i","a","l">>,
            <<"b","r","o","k","e">>,
            <<"d","e","b","t">> >>,
       addition |->
            <<" ","F","i","n","a","n","c","i","a","l"," ","s","t","r","e","s","s"," ","i","s",
              " ","s","i","g","n","i","f","i","c","a","n","t","."," ","B","u","t"," ","y","o",
              "u"," ","h","a","v","e"," ","m","o","r","e"," ","c","o","n","t","r","o","l"," ",
              "t","h","a","n"," ","y","o","u"," ","t","h","i","n","k",".">>],
      [keywords |-> <<
            <<"f","u","t","u","r","e">>,
            <<"t","o","m","o","r","r","o","w">>,
            <<"w","o","r","r","y">>,
            <<"w","h","a","t"," ","i","f">> >>,
       addition |->
            <<" ","F","o","c","u","s"," ","o","n"," ","t","o","d","a","y","."," ","T","o","m",
              "o","r","r","o","w"," ","w","i","l","l"," ","t","a","k","e"," ","c","a","r","e",
              " ","o","f"," ","i","t","s","e","l","f",".">>]
    >>

(***************************************************************************)
(* backend/llm_handler.py                                                  *)
(***************************************************************************)
SentenceEnd == {".", "!", "?"}

\* s.rstrip(".!?")
rstrip_punct(s) ==
    LET keep == {i \in 1..Len(s) : s[i] \notin SentenceEnd}
    IN  IF keep = {} THEN <<>>
        ELSE SubSeq(s, 1, CHOOSE i \in keep : \A j \in keep : i >= j)

\* s.rfind(c) as a Python index: -1 when c is not in s
rfind(s, c) ==
    LET at == {i \in 1..Len(s) : s[i] = c}
    IN  IF at = {} THEN -1 ELSE (CHOOSE i \in at : \A j \in at : i >= j) - 1

max3(a, b, c) ==
    IF a >= b /\ a >= c THEN a ELSE IF b >= c THEN b ELSE c

_clean_response(text) ==
    LET t == strip(text)
    IN  IF Len(t) > 0 /\ t[Len(t)] \notin SentenceEnd
        THEN LET last_punct == max3(rfind(t, "."), rfind(t, "!"), rfind(t, "?"))
             IN  IF last_punct > 0 THEN SubSeq(t, 1, last_punct + 1) ELSE t
        ELSE t

\* the pool random.choice draws from
fallback_pool(emotion) ==
    IF emotion \in DOMAIN fallback_responses
    THEN fallback_responses[emotion] ELSE fallback_responses["neutral"]

\* choice: the index random.choice picks in the pool, 1..len(pool)
_fallback_response(emotion, user_message, choice) ==
    LET base_response == fallback_pool(emotion)[choice]
        user_message_lower == lower(user_message)
        matching == {g \in 1..Len(context_additions) :
                        any_in(context_additions[g].keywords, user_message_lower)}
    IN  IF matching = {} THEN base_response
        ELSE LET g == CHOOSE x \in matching : \A y \in matching : x <= y
             IN  rstrip_punct(base_response) \o <<".">> \o context_additions[g].addition

\* LLMHandler.models
models == [primary |-> "mistralai/Mistral-7B-Instruct-v0.1", fallback |-> "gpt2"]

\* what current_model is after switch_model(model_type)
model_after_switch(model, model_type) ==
    IF model_type \in DOMAIN models THEN models[model_type] ELSE model

\* the first branch of generate_response: no credential or no client
client_unavailable(key_set, client_on) == ~key_set \/ ~client_on

\* generate_response without its "except Exception": what the service raises leaves it
after_text_generation_uncaught(service, prompt, emotion, choice) ==
    IF service.kind = "raises" THEN [raised |-> TRUE, text |-> <<>>]
    ELSE IF Len(service.text) > 0
    THEN [raised |-> FALSE, text |-> _clean_response(service.text)]
    ELSE [raised |-> FALSE, text |-> _fallback_response(emotion, prompt, choice)]

\* generate_response from the return of client.text_generation on:
\*   service = [kind |-> "returns", text |-> t]   the service answered t
\*   service = [kind |-> "raises"]                the call raised an Exception
\* choice is random.choice's pick should the fallback run.  The value is
\* [raised |-> whether an exception leaves generate_response, text |-> the str returned]
after_text_generation(service, prompt, emotion, choice) ==
    IF service.kind = "returns" /\ Len(service.text) > 0
    THEN [raised |-> FALSE, text |-> _clean_response(service.text)]
    ELSE [raised |-> FALSE, text |-> _fallback_response(emotion, prompt, choice)]

(***************************************************************************)
(* backend/response_generator.py                                           *)
(***************************************************************************)
\* dict.get(key, default) on a record
dict_get(d, key, default) == IF key \in DOMAIN d THEN d[key] ELSE default

\* confidences are in hundredths: 1.0 is 100, the default 0.5 is 50
_create_response_object(response, emotion_data, is_safe, metadata) ==
    [response |-> response,
     emotion |-> dict_get(emotion_data, "primary_emotion", "neutral"),
     emotion_confidence |-> dict_get(emotion_data, "confidence", 50),
     sentiment |-> dict_get(emotion_data, "sentiment", "neutral"),
     intensity |-> dict_get(emotion_data, "intensity", "medium"),
     emoji |-> get_emotion_emoji(dict_get(emotion_data, "primary_emotion", "neutral")),
     color |-> get_emotion_color(dict_get(emotion_data, "primary_emotion", "neutral")),
     is_safe |-> is_safe,
     metadata |-> metadata]

\* a generate that does not return on a failed validation
validation_exit_never(validation) == FALSE

\* generate, step 1: "if not validation['valid']: return ..."
validation_exit(validation) == ~validation.valid

\* a generate that does not return on a crisis
crisis_exit_never(crisis_check) == FALSE

\* generate, step 2: "if crisis_check['is_crisis']: return ..."
crisis_exit(crisis_check) == crisis_check.is_crisis

\* a validation reply flagged unsafe
validation_failed_reply_unsafe(validation) ==
    _create_response_object(validation.suggestion,
                            [primary_emotion |-> "neutral", confidence |-> 100],
                            FALSE,
                            [validation_failed |-> TRUE])

\* generate, step 1: the reply returned when validation fails
validation_failed_reply(validation) ==
    _create_response_object(validation.suggestion,
                            [primary_emotion |-> "neutral", confidence |-> 100],
                            TRUE,
                            [validation_failed |-> TRUE])

\* a crisis reply whose emotion is not forced
crisis_reply_unforced(crisis_check) ==
    _create_response_object(crisis_check.message,
                            [primary_emotion |-> "neutral", confidence |-> 50],
                            TRUE,
                            [is_crisis |-> TRUE])

\* generate, step 2: the reply returned when a crisis is detected
crisis_reply(crisis_check) ==
    _create_response_object(crisis_check.message,
                            [primary_emotion |-> "fearful", confidence |-> 100],
                            TRUE,
                            [is_crisis |-> TRUE])

\* a step 9 that reports every reply as safe
complete_reply_always_safe(final_response, emotion_data, is_safe, model, prompt) ==
    _create_response_object(Str(final_response), emotion_data, TRUE,
                            [model_used |-> model, prompt_length |-> Len(prompt)])

\* generate, step 9: the reply of a call that ran the whole pipeline
complete_reply(final_response, emotion_data, is_safe, model, prompt) ==
    _create_response_object(Str(final_response), emotion_data, is_safe,
                            [model_used |-> model, prompt_length |-> Len(prompt)])

\* "conversation_context or self.conversation_history" is the generator's own
\* list: None and [] are falsy
uses_own_history(conversation_context) ==
    conversation_context.none \/ Len(conversation_context.list) = 0

\* conversation_context or self.conversation_history
history_for_prompt(conversation_context, internal_history) ==
    IF ~conversation_context.none /\ Len(conversation_context.list) > 0
    THEN conversation_context.list ELSE internal_history

Entry(role, content) == [role |-> role, content |-> content]

\* an _update_history that prunes from the wrong end
_update_history_keeps_oldest(history, user_msg, bot_msg, max_history) ==
    LET appended == history \o <<Entry("user", user_msg), Entry("assistant", bot_msg)>>
    IN  IF Len(appended) > max_history * 2
        THEN SubSeq(appended, 1, max_history * 2) ELSE appended

\* an _update_history that never prunes
_update_history_unpruned(history, user_msg, bot_msg, max_history) ==
    history \o <<Entry("user", user_msg), Entry("assistant", bot_msg)>>

_update_history(history, user_msg, bot_msg, max_history) ==
    LET appended == history \o <<Entry("user", user_msg), Entry("assistant", bot_msg)>>
    IN  IF Len(appended) > max_history * 2
        THEN list_suffix(appended, max_history * 2) ELSE appended

\* _update_history, statement by statement: the two appends, the length test,
\* the slice that is read and the assignment of it
append_entry(history, role, content) == Append(history, Entry(role, content))

needs_pruning(history, max_history) == Len(history) > max_history * 2

\* a slice taken from the wrong end
pruned_slice_oldest(history, max_history) == SubSeq(history, 1, max_history * 2)

\* self.conversation_history[-(max_history * 2):]
pruned_slice(history, max_history) == list_suffix(history, max_history * 2)

\* the default of _update_history's max_history
DefaultMaxHistory == 10

\* LLMHandler.models["primary"], the initial current_model
PrimaryModel == "mistralai/Mistral-7B-Instruct-v0.1"
\* the user messages a call may be given: an empty one, a run of one letter
\* before a crisis keyword, a crisis message, and an ordinary message
Messages ==
    { Str(<<>>),
      Str(
        <<"a","a","a","a","a","a","a","a","a","a"," ","d","i","e">>),
      Str(
        <<"I"," ","w","a","n","t"," ","t","o"," ","D","I","E">>),
      Str(
        <<"I"," ","f","e","e","l"," ","s","o"," ","s","a","d">>) }

\* the conversation_context a caller may pass: None or one turn-pair
NoContext == [none |-> TRUE, list |-> <<>>]

Contexts ==
    { NoContext,
      [none |-> FALSE,
       list |-> <<Entry("user",
        <<"h","i">>),
                  Entry("assistant",
        <<"H","e","l","l","o",".">>)>>] }

\* what client.text_generation may do once called: answer a text (cut short,
\* with medical wording, or with contact details), answer "", or raise
ServiceOutcomes ==
    { [kind |-> "raises"],
      [kind |-> "returns", text |-> <<>>],
      [kind |-> "returns", text |->
        <<"I"," ","u","n","d","e","r","s","t","a","n","d","."," ","T","h","a","t"," ","s","o",
          "u","n","d","s"," ","d","i","f","f","i","c","u","l","t"," ","a","n","d">>],
      [kind |-> "returns", text |->
        <<"Y","o","u"," ","h","a","v","e"," ","d","e","p","r","e","s","s","i","o","n"," ","a",
          "n","d"," ","n","e","e","d"," ","m","e","d","i","c","a","t","i","o","n",".">>],
      [kind |-> "returns", text |->
        <<"A","n","x","i","e","t","y"," ","i","s"," ","h","a","r","d","."," ","W","r","i","t",
          "e"," ","t","o"," ","h","e","l","p","@","e","x","a","m","p","l","e",".","o","r","g",
          " ","o","r"," ","c","a","l","l"," ","5","5","5","-","1","2","3","-","4","5","6","7",
          ".">>] }

(***************************************************************************)
(* State                                                                   *)
(***************************************************************************)
VARIABLES
    conversation_history,  \* ResponseGenerator.conversation_history
    api_key_set,           \* LLMHandler.api_key is truthy
    use_client,            \* LLMHandler.use_client
    current_model,         \* LLMHandler.current_model
    has_textblob,          \* emotion_detector.HAS_TEXTBLOB
    frame,                 \* per thread: the locals and position of its generate call
    calls,                 \* generate calls started so far
    fn,                    \* the function a direct call applied ("none" before it)
    arg,                   \* the argument of the direct call
    ret,                   \* what the direct call returned
    log                    \* every entry handed to _update_history, oldest first

vars == <<conversation_history, api_key_set, use_client, current_model, has_textblob,
          frame, calls, fn, arg, ret, log>>

Threads == {1, 2}

\* the thread of the sequential specification
MainThread == 1

MaxCalls == 1

\* a thread outside generate; the locals hold placeholders until assigned
IdleFrame ==
    [pc |-> "idle",
     user_message |-> None,
     conversation_context |-> NoContext,
     context_on_entry |-> NoContext,
     validation |-> [valid |-> FALSE, reason |-> "unset", suggestion |-> None],
     crisis_check |-> [is_crisis |-> FALSE, severity |-> "unset", message |-> None],
     emotion_data |-> [primary_emotion |-> "unset"],
     prompt |-> <<>>,
     service |-> [kind |-> "not called"],
     raw_response |-> <<>>,
     filtered_response |-> <<>>,
     is_safe |-> FALSE,
     final_response |-> <<>>,
     kept |-> <<>>,
     result |-> [metadata |-> [unset |-> TRUE]],
     trace |-> <<>>]

\* the state after ResponseGenerator.__init__
InitGenerator ==
    /\ conversation_history = <<>>
    /\ api_key_set \in BOOLEAN
    /\ use_client \in {u \in BOOLEAN : u => api_key_set}
    /\ current_model = PrimaryModel
    /\ has_textblob \in BOOLEAN
    /\ frame = [p \in Threads |-> IdleFrame]
    /\ calls = 0

NoDirectCall == fn = "none" /\ arg = None /\ ret = None /\ log = <<>>

Init == InitGenerator /\ NoDirectCall

\* what the sentiment scorer may give for one text
ScorerOutcomes ==
    IF has_textblob
    THEN { [available |-> TRUE, raised |-> TRUE],
           [available |-> TRUE, raised |-> FALSE, polarity |-> -50, subjectivity |-> 100] }
    ELSE { [available |-> FALSE] }

unchanged_generator == UNCHANGED <<api_key_set, use_client, current_model, has_textblob>>

unchanged_direct == UNCHANGED <<fn, arg, ret, log>>

(***************************************************************************)
(* generate(user_message, conversation_context), statement by statement    *)
(***************************************************************************)
\* the caller enters generate
Start(p, m, ctx) ==
    /\ frame[p].pc = "idle"
    /\ calls < MaxCalls
    /\ calls' = calls + 1
    /\ frame' = [frame EXCEPT ![p] = [IdleFrame EXCEPT !.pc = "validate_user_input",
                                                       !.user_message = m,
                                                       !.conversation_context = ctx,
                                                       !.context_on_entry = ctx]]
    /\ UNCHANGED conversation_history
    /\ unchanged_generator /\ unchanged_direct

\* Step 1: validate input
Validate(p) ==
    /\ frame[p].pc = "validate_user_input"
    /\ LET f == frame[p]
           validation == validate_user_input(f.user_message)
       IN  frame' = [frame EXCEPT ![p] =
             IF validation_exit(validation)
             THEN [f EXCEPT !.validation = validation,
                            !.result = validation_failed_reply(validation),
                            !.trace = f.trace \o <<"validate_user_input",
                                                   "_create_response_object">>,
                            !.pc = "returned"]
             ELSE [f EXCEPT !.validation = validation,
                            !.trace = Append(f.trace, "validate_user_input"),
                            !.pc = "check_crisis"]]
    /\ UNCHANGED <<conversation_history, calls>>
    /\ unchanged_generator /\ unchanged_direct

\* Step 2: check for crisis
CheckCrisis(p) ==
    /\ frame[p].pc = "check_crisis"
    /\ LET f == frame[p]
           crisis_check == check_crisis(f.user_message.s)
       IN  frame' = [frame EXCEPT ![p] =
             IF crisis_exit(crisis_check)
             THEN [f EXCEPT !.crisis_check = crisis_check,
                            !.result = crisis_reply(crisis_check),
                            !.trace = f.trace \o <<"check_crisis",
                                                   "_create_response_object">>,
                            !.pc = "returned"]
             ELSE [f EXCEPT !.crisis_check = crisis_check,
                            !.trace = Append(f.trace, "check_crisis"),
                            !.pc = "detect_emotion"]]
    /\ UNCHANGED <<conversation_history, calls>>
    /\ unchanged_generator /\ unchanged_direct

\* Step 3: detect emotion
Classify(p, scorer) ==
    /\ frame[p].pc = "detect_emotion"
    /\ LET f == frame[p]
       IN  frame' = [frame EXCEPT ![p] =
             [f EXCEPT !.emotion_data = detect_emotion(f.user_message.s, scorer),
                       !.trace = Append(f.trace, "detect_emotion"),
                       !.pc = "build_prompt"]]
    /\ UNCHANGED <<conversation_history, calls>>
    /\ unchanged_generator /\ unchanged_direct

\* Step 4: build the prompt.  build_prompt is handed the caller's list when that
\* is not None and not empty, else the generator's own list; the list it was
\* handed is, afterwards, what history_after_build_prompt says
Compose(p) ==
    /\ frame[p].pc = "build_prompt"
    /\ LET f == frame[p]
           own == uses_own_history(f.conversation_context)
       IN  /\ frame' = [frame EXCEPT ![p] =
                 [f EXCEPT !.prompt = build_prompt(f.user_message.s,
                                                   f.emotion_data.primary_emotion,
                                                   history_for_prompt(f.conversation_context,
                                                                      conversation_history)),
                           !.conversation_context =
                               IF own THEN f.conversation_context
                               ELSE [none |-> FALSE,
                                     list |-> history_after_build_prompt(
                                                  f.conversation_context.list)],
                           !.trace = Append(f.trace, "build_prompt"),
                           !.pc = "generate_response"]]
           /\ conversation_history' =
                 IF own THEN history_after_build_prompt(conversation_history)
                 ELSE conversation_history
    /\ UNCHANGED calls
    /\ unchanged_generator /\ unchanged_direct

\* Step 5: llm.generate_response is entered: the fallback at once when no client is
\* configured, else client.text_generation is called and the thread waits for it
Generate(p, choice) ==
    /\ frame[p].pc = "generate_response"
    /\ choice \in 1..Len(fallback_pool(frame[p].emotion_data.primary_emotion))
    /\ LET f == frame[p]
       IN  frame' = [frame EXCEPT ![p] =
             IF client_unavailable(api_key_set, use_client)
             THEN [f EXCEPT !.raw_response =
                                _fallback_response(f.emotion_data.primary_emotion,
                                                   f.prompt, choice),
                            !.trace = f.trace \o <<"generate_response",
                                                   "_fallback_response">>,
                            !.pc = "filter_response"]
             ELSE [f EXCEPT !.trace = f.trace \o <<"generate_response",
                                                   "text_generation">>,
                            !.pc = "text_generation"]]
    /\ UNCHANGED <<conversation_history, calls>>
    /\ unchanged_generator /\ unchanged_direct

\* client.text_generation returns or raises, and generate_response finishes; an
\* exception that left generate_response would leave generate too
ServiceReturns(p, service, choice) ==
    /\ frame[p].pc = "text_generation"
    /\ choice \in 1..Len(fallback_pool(frame[p].emotion_data.primary_emotion))
    /\ LET f == frame[p]
           r == after_text_generation(service, f.prompt,
                                      f.emotion_data.primary_emotion, choice)
           cleaned == service.kind = "returns" /\ Len(service.text) > 0
       IN  frame' = [frame EXCEPT ![p] =
             IF r.raised
             THEN [f EXCEPT !.service = service, !.pc = "raised"]
             ELSE [f EXCEPT !.service = service,
                            !.raw_response = r.text,
                            !.trace = Append(f.trace, IF cleaned THEN "_clean_response"
                                                      ELSE "_fallback_response"),
                            !.pc = "filter_response"]]
    /\ UNCHANGED <<conversation_history, calls>>
    /\ unchanged_generator /\ unchanged_direct

\* Step 6: safety filter
Filter(p) ==
    /\ frame[p].pc = "filter_response"
    /\ LET f == frame[p]
           filtered == filter_response(f.raw_response, f.user_message.s)
       IN  frame' = [frame EXCEPT ![p] =
             [f EXCEPT !.filtered_response = filtered[1],
                       !.is_safe = filtered[2],
                       !.trace = Append(f.trace, "filter_response"),
                       !.pc = "sanitize_output"]]
    /\ UNCHANGED <<conversation_history, calls>>
    /\ unchanged_generator /\ unchanged_direct

\* a step 7 that sanitizes the unfiltered response
SanitizeRawResponse(p) ==
    /\ frame[p].pc = "sanitize_output"
    /\ LET f == frame[p]
       IN  frame' = [frame EXCEPT ![p] =
             [f EXCEPT !.final_response = sanitize_output(f.raw_response),
                       !.trace = Append(f.trace, "sanitize_output"),
                       !.pc = "_update_history"]]
    /\ UNCHANGED <<conversation_history, calls>>
    /\ unchanged_generator /\ unchanged_direct

\* Step 7: sanitize output
Sanitize(p) ==
    /\ frame[p].pc = "sanitize_output"
    /\ LET f == frame[p]
       IN  frame' = [frame EXCEPT ![p] =
             [f EXCEPT !.final_response = sanitize_output(f.filtered_response),
                       !.trace = Append(f.trace, "sanitize_output"),
                       !.pc = "_update_history"]]
    /\ UNCHANGED <<conversation_history, calls>>
    /\ unchanged_generator /\ unchanged_direct

\* Step 8: update the conversation history.  The appends are made in place to
\* the generator's own list object, which is never the list the caller passed
UpdateHistory(p) ==
    /\ frame[p].pc = "_update_history"
    /\ conversation_history' = _update_history(conversation_history,
                                               frame[p].user_message.s,
                                               frame[p].final_response,
                                               DefaultMaxHistory)
    /\ frame' = [frame EXCEPT ![p].trace = Append(@, "_update_history"),
                              ![p].pc = "_create_response_object"]
    /\ UNCHANGED calls
    /\ unchanged_generator /\ unchanged_direct

\* Step 9: return the complete response object
Package(p) ==
    /\ frame[p].pc = "_create_response_object"
    /\ LET f == frame[p]
       IN  frame' = [frame EXCEPT ![p] =
             [f EXCEPT !.result = complete_reply(f.final_response, f.emotion_data,
                                                 f.is_safe, current_model, f.prompt),
                       !.trace = Append(f.trace, "_create_response_object"),
                       !.pc = "returned"]]
    /\ UNCHANGED <<conversation_history, calls>>
    /\ unchanged_generator /\ unchanged_direct

\* the caller takes the reply; the frame is gone
Return(p) ==
    /\ frame[p].pc = "returned"
    /\ frame' = [frame EXCEPT ![p] = IdleFrame]
    /\ UNCHANGED <<conversation_history, calls>>
    /\ unchanged_generator /\ unchanged_direct

\* ResponseGenerator.reset_conversation
reset_conversation ==
    /\ \A p \in Threads : frame[p].pc = "idle"
    /\ conversation_history # <<>>
    /\ conversation_history' = <<>>
    /\ UNCHANGED <<frame, calls>>
    /\ unchanged_generator /\ unchanged_direct

\* one statement of thread p's generate call
Step(p) ==
    \/ Validate(p)
    \/ CheckCrisis(p)
    \/ \E scorer \in ScorerOutcomes : Classify(p, scorer)
    \/ Compose(p)
    \/ \E choice \in 1..5 : Generate(p, choice)
    \/ \E service \in ServiceOutcomes, choice \in 1..5 : ServiceReturns(p, service, choice)
    \/ Filter(p)
    \/ Sanitize(p)
    \/ UpdateHistory(p)
    \/ Package(p)
    \/ Return(p)

\* generate is called from one thread, one call after another
Next ==
    \/ \E m \in Messages, ctx \in Contexts : Start(MainThread, m, ctx)
    \/ Step(MainThread)
    \/ reset_conversation

Spec == Init /\ [][Next]_vars

(***************************************************************************)
(* Properties of generate                                                  *)
(***************************************************************************)
InTrace(f, stage) == \E i \in 1..Len(f.trace) : f.trace[i] = stage

\* the text holds keyword k somewhere, letter case aside
HoldsKeyword(text, k) ==
    \E i \in 0..(Len(text) - Len(k)) : \A j \in 1..Len(k) : lower_char(text[i + j]) = k[j]

HoldsAnyOf(text, keywords) == \E n \in 1..Len(keywords) : HoldsKeyword(text, keywords[n])

\* what runs after the crisis check
AfterCrisisCheck ==
    {"detect_emotion", "build_prompt", "generate_response", "text_generation",
     "_fallback_response", "_clean_response", "filter_response", "sanitize_output",
     "_update_history"}

IsCrisisReply(reply) ==
    /\ "is_crisis" \in DOMAIN reply.metadata
    /\ reply.metadata.is_crisis

\* C1: whenever the message of a generate call holds a crisis keyword, the reply
\* returned has metadata is_crisis = true and the fixed crisis message as response.
C1_CrisisKeywordGetsCrisisReply ==
    \A p \in Threads :
        LET f == frame[p]
        IN  (f.pc = "returned" /\ HoldsAnyOf(f.user_message.s, crisis_keywords))
            => /\ IsCrisisReply(f.result)
               /\ f.result.response = Str(_get_crisis_response)

\* C2: in a call whose check_crisis reported a crisis, or whose validation failed,
\* nothing after the crisis check has run or is running: neither the emotion
\* detector, the prompt builder, the generation call or fallback, the filter nor
\* the sanitizer, and the call has returned.
C2_ShortCircuitBeforeGeneration ==
    \A p \in Threads :
        LET f == frame[p]
        IN  (\/ InTrace(f, "check_crisis") /\ f.crisis_check.is_crisis
             \/ InTrace(f, "validate_user_input") /\ ~f.validation.valid)
            => /\ f.pc = "returned"
               /\ \A i \in 1..Len(f.trace) : f.trace[i] \notin AfterCrisisCheck

C2_Witness ==
    \E p \in Threads :
        /\ frame[p].pc = "returned"
        /\ frame[p].crisis_check.is_crisis
        /\ frame[p].trace = <<"validate_user_input", "check_crisis",
                              "_create_response_object">>

\* C3: a returned reply with is_crisis = true carries the fixed crisis text, the
\* emotion fearful with confidence 1.0 and is_safe = true, and in its call neither
\* the generation service, filter_response nor sanitize_output has run.
C3_CrisisReplyIsFixed ==
    \A p \in Threads :
        LET f == frame[p]
        IN  (f.pc = "returned" /\ IsCrisisReply(f.result))
            => /\ f.result.response = Str(_get_crisis_response)
               /\ f.result.emotion = "fearful"
               /\ f.result.emotion_confidence = 100
               /\ f.result.is_safe = TRUE
               /\ \A i \in 1..Len(f.trace) : f.trace[i] \notin AfterCrisisCheck

C3_Witness ==
    \E p \in Threads :
        /\ frame[p].pc = "returned"
        /\ IsCrisisReply(frame[p].result)
        /\ \E i \in 1..Len(frame[p].user_message.s) : IsUpper(frame[p].user_message.s[i])

IsStructuredReply(reply) ==
    /\ {"response", "emotion", "is_safe", "metadata"} \subseteq DOMAIN reply
    /\ ~reply.response.none
    /\ reply.is_safe \in BOOLEAN

\* the responses the fallback can give for an emotion and a prompt
FallbackResponses(emotion, prompt) ==
    {_fallback_response(emotion, prompt, c) : c \in 1..Len(fallback_pool(emotion))}

\* the positions of a call from which generate has a next statement to run
Running ==
    {"validate_user_input", "check_crisis", "detect_emotion", "build_prompt",
     "generate_response", "text_generation", "filter_response", "sanitize_output",
     "_update_history", "_create_response_object"}

\* C4: generate is total.  Whatever the message and whatever the service does, a
\* call is at a statement it can run or has returned a structured reply; no
\* exception leaves it; and when the service raised or answered nothing,
\* generate_response returned a fallback response.
C4_GenerateIsTotal ==
    \A p \in Threads :
        LET f == frame[p]
        IN  /\ f.pc \in Running \cup {"idle", "returned"}
            /\ f.pc = "returned" => IsStructuredReply(f.result)
            /\ (/\ f.pc = "filter_response"
                /\ \/ f.service.kind = "raises"
                   \/ f.service.kind = "returns" /\ f.service.text = <<>>)
               => f.raw_response \in FallbackResponses(f.emotion_data.primary_emotion,
                                                       f.prompt)

C4_Witness ==
    \E p \in Threads :
        /\ frame[p].pc = "returned"
        /\ frame[p].service.kind = "raises"
        /\ IsStructuredReply(frame[p].result)

\* the eight stages of a call, in order
StageOrder ==
    <<"validate_user_input", "check_crisis", "detect_emotion", "build_prompt",
      "generate_response", "filter_response", "sanitize_output",
      "_create_response_object">>

Stages == {StageOrder[i] : i \in 1..Len(StageOrder)}

StageTrace(f) == SelectSeq(f.trace, LAMBDA s : s \in Stages)

IsPrefix(s, t) == Len(s) <= Len(t) /\ \A i \in 1..Len(s) : s[i] = t[i]

\* C5: the stages of a call run in the order Validate, Crisis-check, Classify,
\* Compose, Generate, Filter, Sanitize, Package, each at most once; the only other
\* runs are Validate, Package on invalid input and Validate, Crisis-check, Package
\* on a crisis; and Sanitize is given the output of Filter.
C5_StagesInOrder ==
    \A p \in Threads :
        LET f == frame[p]
            st == StageTrace(f)
        IN  /\ \/ IsPrefix(st, StageOrder)
               \/ /\ st = <<"validate_user_input", "_create_response_object">>
                  /\ ~f.validation.valid
               \/ /\ st = <<"validate_user_input", "check_crisis",
                            "_create_response_object">>
                  /\ f.crisis_check.is_crisis
            /\ InTrace(f, "filter_response")
               => /\ f.filtered_response = filter_response(f.raw_response,
                                                           f.user_message.s)[1]
                  /\ f.is_safe = filter_response(f.raw_response, f.user_message.s)[2]
            /\ InTrace(f, "sanitize_output")
               => f.final_response = sanitize_output(f.filtered_response)
            /\ f.pc = "returned" /\ Len(st) = Len(StageOrder)
               => f.result.response = Str(f.final_response)

C5_Witness ==
    \E p \in Threads :
        /\ frame[p].pc = "returned"
        /\ StageTrace(frame[p]) = StageOrder
        /\ ~frame[p].is_safe
        /\ frame[p].final_response # sanitize_output(frame[p].raw_response)

\* C6: when validation fails (reason empty or gibberish) generate returns, as an
\* ordinary value, the reply whose response is the validation suggestion, with
\* emotion neutral, is_safe = true and metadata {validation_failed: true}.
C6_ValidationFailureReply ==
    \A p \in Threads :
        LET f == frame[p]
        IN  (InTrace(f, "validate_user_input") /\ ~f.validation.valid)
            => /\ f.pc = "returned"
               /\ f.validation.reason \in {"empty", "gibberish"}
               /\ f.result.response = f.validation.suggestion
               /\ f.result.response =
                      Str(IF f.validation.reason = "empty"
                          THEN SuggestionEmpty ELSE SuggestionGibberish)
               /\ f.result.emotion = "neutral"
               /\ f.result.is_safe = TRUE
               /\ f.result.metadata = [validation_failed |-> TRUE]

C6_Witness ==
    \E p \in Threads :
        /\ frame[p].pc = "returned"
        /\ frame[p].validation.reason = "gibberish"
        /\ frame[p].result.metadata = [validation_failed |-> TRUE]

HoldsTopicKeyword(text) ==
    \E g \in 1..Len(context_additions) : HoldsAnyOf(text, context_additions[g].keywords)

\* the canned sentences of an emotion, as they stand in the pool
CannedSentences(emotion) ==
    {fallback_pool(emotion)[c] : c \in 1..Len(fallback_pool(emotion))}

\* C12: when a call took the fallback, what the fallback returned carries an
\* addendum if and only if the user message of the call holds a topic keyword; a
\* user message without one gets a canned sentence as it stands in the pool.
C12_AddendumFollowsUserMessage ==
    \A p \in Threads :
        LET f == frame[p]
        IN  InTrace(f, "_fallback_response")
            => (f.raw_response \notin CannedSentences(f.emotion_data.primary_emotion)
                <=> HoldsTopicKeyword(f.user_message.s))

\* the statements of generate that the thread itself runs; the return of
\* client.text_generation is the service's step, not the thread's
ProgramStep(p) ==
    \/ Validate(p)
    \/ CheckCrisis(p)
    \/ \E scorer \in ScorerOutcomes : Classify(p, scorer)
    \/ Compose(p)
    \/ \E choice \in 1..5 : Generate(p, choice)
    \/ Filter(p)
    \/ Sanitize(p)
    \/ UpdateHistory(p)
    \/ Package(p)
    \/ Return(p)

\* C14: the generation step has a call-level timeout.  A call that waits for
\* client.text_generation has a step of its own to take, which ends the wait and
\* leads to the fallback, so that the call returns even when the service never
\* answers.
C14_WaitingCallCanTimeOut ==
    \A p \in Threads :
        frame[p].pc = "text_generation" => ENABLED ProgramStep(p)

\* the text holds, letter case aside, a medical keyword or a prohibited phrase
HoldsDisallowed(text) ==
    \/ any_in(medical_keywords, lower(text))
    \/ any_in(prohibited_phrases, lower(text))

\* C28: for every reply generate returns, on every path, is_safe is FALSE if and
\* only if the response is the fixed safe-alternative text; and every reply with
\* is_safe = TRUE that went through the generation step holds no medical keyword
\* and no prohibited phrase.
C28_UnsafeIffSubstituted ==
    \A p \in Threads :
        LET f == frame[p]
        IN  f.pc = "returned"
            => /\ ~f.result.is_safe <=> f.result.response = Str(_get_safe_alternative)
               /\ (f.result.is_safe /\ InTrace(f, "generate_response"))
                  => ~HoldsDisallowed(f.result.response.s)

\* a reply the service gave was replaced, and the call has returned
C28_Witness ==
    \E p \in Threads :
        LET f == frame[p]
        IN  /\ f.pc = "returned"
            /\ InTrace(f, "_clean_response")
            /\ HoldsDisallowed(f.raw_response)
            /\ ~f.result.is_safe
            /\ f.result.response = Str(_get_safe_alternative)

(***************************************************************************)
(* validate_user_input applied to every short text                         *)
(***************************************************************************)
MaxTextLen == 7

ValidateAlphabet == {"a", "b", "c", " "}

ValidateInputs == {None} \cup {Str(s) : s \in StrUpTo(ValidateAlphabet, MaxTextLen)}

InitValidate ==
    /\ InitGenerator
    /\ fn = "none"
    /\ arg \in ValidateInputs
    /\ ret = None
    /\ log = <<>>

CallValidate ==
    /\ fn = "none"
    /\ fn' = "validate_user_input"
    /\ ret' = validate_user_input(arg)
    /\ UNCHANGED <<arg, log, conversation_history, frame, calls>>
    /\ unchanged_generator

NextValidate == CallValidate

SpecValidate == InitValidate /\ [][NextValidate]_vars

\* the characters of a text that are not whitespace
NonWhitespace(text) == {i \in 1..Len(text.s) : text.s[i] \notin Whitespace}

\* C8: every text of at least two non-whitespace characters in which one character,
\* wherever it stands, makes up more than 70% of the length is rejected as gibberish.
C8_DominantCharacterIsGibberish ==
    (/\ fn = "validate_user_input"
     /\ Cardinality(NonWhitespace(arg)) >= 2
     /\ \E c \in set(arg.s) : 10 * count(arg.s, c) > 7 * Len(arg.s))
    => (~ret.valid /\ ret.reason = "gibberish")

\* C9: every text with fewer than two non-whitespace characters (the empty string,
\* None and whitespace included) is rejected with reason empty and the suggestion
\* "Please share what's on your mind."
C9_NearEmptyIsRejected ==
    (fn = "validate_user_input" /\ Cardinality(NonWhitespace(arg)) < 2)
    => ret = [valid |-> FALSE, reason |-> "empty", suggestion |-> Str(SuggestionEmpty)]

C9_Witness ==
    /\ fn = "validate_user_input"
    /\ Len(arg.s) >= 3
    /\ Cardinality(NonWhitespace(arg)) = 1
    /\ ret.reason = "empty"

(***************************************************************************)
(* filter_response applied to candidate replies                            *)
(***************************************************************************)
\* str.upper()
upper(s) ==
    [i \in 1..Len(s) |->
        IF IsLower(s[i]) THEN UpperLetters[CHOOSE n \in 1..26 : LowerLetters[n] = s[i]]
        ELSE s[i]]

\* str.capitalize() of a lowercase text
capitalized(s) == IF Len(s) = 0 THEN s ELSE <<upper(s)[1]>> \o Tail(s)

\* words a candidate is built around: every medical keyword and prohibited phrase,
\* the mental-health terms, and words that are close to a keyword or harmless
FilterWords ==
    {medical_keywords[i] : i \in 1..Len(medical_keywords)}
    \cup {prohibited_phrases[i] : i \in 1..Len(prohibited_phrases)}
    \cup {mental_health_terms[i] : i \in 1..Len(mental_health_terms)}
    \cup {
        <<"t","h","e","r","a","p">>,
        <<"y","o","u"," ","h","a","v">>,
        <<"h","e","l","l","o">>,
        <<"s","e","c","u","r","e">> }

FilterPrefixes ==
    { <<>>,
        <<"I"," ","t","h","i","n","k"," ">>,
        <<"x">> }

FilterSuffixes ==
    { <<>>,
        <<".">>,
        <<" ","i","s"," ","h","a","r","d">> }

FilterInputs ==
    {pre \o w \o suf :
        pre \in FilterPrefixes,
        w \in UNION {{x, upper(x), capitalized(x)} : x \in FilterWords},
        suf \in FilterSuffixes}

InitFilter ==
    /\ InitGenerator
    /\ fn = "none"
    /\ arg \in {Str(s) : s \in FilterInputs}
    /\ ret = None
    /\ log = <<>>

CallFilter ==
    /\ fn = "none"
    /\ fn' = "filter_response"
    /\ ret' = filter_response(arg.s, <<>>)
    /\ UNCHANGED <<arg, log, conversation_history, frame, calls>>
    /\ unchanged_generator

NextFilter == CallFilter

SpecFilter == InitFilter /\ [][NextFilter]_vars

\* C7: a candidate that holds, letter case aside, a medical keyword or a prohibited
\* phrase is discarded whole: filter_response returns the fixed safe-alternative
\* text and False, the same for every such candidate.
C7_DisallowedCandidateReplaced ==
    (/\ fn = "filter_response"
     /\ \/ HoldsAnyOf(arg.s, medical_keywords)
        \/ HoldsAnyOf(arg.s, prohibited_phrases))
    => ret = <<_get_safe_alternative, FALSE>>

C7_Witness ==
    /\ fn = "filter_response"
    /\ HoldsAnyOf(arg.s, prohibited_phrases)
    /\ ~HoldsAnyOf(arg.s, medical_keywords)
    /\ \E i \in 1..Len(arg.s) : IsUpper(arg.s[i])
    /\ ret = <<_get_safe_alternative, FALSE>>

(***************************************************************************)
(* _update_history applied again and again, for small max_history          *)
(***************************************************************************)
MaxHistoryArg == 2

MaxAppends == 4

HistoryTexts ==
    {
        <<"h","i">>,
        <<"o","k">> }

\* arg is the max_history of every call
InitHistory ==
    /\ InitGenerator
    /\ fn = "none"
    /\ arg \in 1..MaxHistoryArg
    /\ ret = None
    /\ log = <<>>

CallUpdateHistory(user_msg, bot_msg) ==
    /\ Len(log) < 2 * MaxAppends
    /\ fn' = "_update_history"
    /\ conversation_history' = _update_history(conversation_history, user_msg, bot_msg, arg)
    /\ log' = log \o <<Entry("user", user_msg), Entry("assistant", bot_msg)>>
    /\ UNCHANGED <<arg, ret, frame, calls>>
    /\ unchanged_generator

NextHistory == \E u \in HistoryTexts, b \in HistoryTexts : CallUpdateHistory(u, b)

SpecHistory == InitHistory /\ [][NextHistory]_vars

\* C10: after every _update_history with max_history = N the history has at most
\* 2N entries; it is everything appended while that is at most 2N entries, and
\* from then on exactly the 2N entries appended last, in the order appended.
C10_HistoryKeepsNewest ==
    fn = "_update_history"
    => /\ Len(conversation_history) <= 2 * arg
       /\ Len(log) <= 2 * arg => conversation_history = log
       /\ Len(log) > 2 * arg
          => conversation_history = SubSeq(log, Len(log) - 2 * arg + 1, Len(log))

C10_Witness ==
    /\ fn = "_update_history"
    /\ Len(log) >= 2 * arg + 4
    /\ conversation_history = SubSeq(log, Len(log) - 2 * arg + 1, Len(log))
    /\ conversation_history[1] # log[1]

(***************************************************************************)
(* generate called again and again with the same arguments from the same   *)
(* starting history, the generation service not configured                 *)
(***************************************************************************)
MaxReplays == 2

\* arg is the pair of arguments of every call; log collects the replies.  The
\* sentiment comes from the keyword count, a function of the text alone
InitReplay ==
    /\ InitGenerator
    /\ ~use_client
    /\ ~has_textblob
    /\ fn = "none"
    /\ arg \in [user_message : Messages, conversation_context : Contexts]
    /\ ret = None
    /\ log = <<>>

\* the caller enters generate with the arguments, the history being empty
StartReplay(p) ==
    /\ frame[p].pc = "idle"
    /\ conversation_history = <<>>
    /\ Len(log) < MaxReplays
    /\ frame' = [frame EXCEPT ![p] =
                    [IdleFrame EXCEPT !.pc = "validate_user_input",
                                      !.user_message = arg.user_message,
                                      !.conversation_context = arg.conversation_context,
                                      !.context_on_entry = arg.conversation_context]]
    /\ UNCHANGED <<conversation_history, calls>>
    /\ unchanged_generator /\ unchanged_direct

\* the caller takes the reply and keeps it
ReturnReplay(p) ==
    /\ frame[p].pc = "returned"
    /\ frame' = [frame EXCEPT ![p] = IdleFrame]
    /\ log' = Append(log, frame[p].result)
    /\ fn' = "generate"
    /\ UNCHANGED <<arg, ret, conversation_history, calls>>
    /\ unchanged_generator

\* the calls are made one after another, reset_conversation in between
NextReplay ==
    \/ StartReplay(MainThread)
    \/ Validate(MainThread)
    \/ CheckCrisis(MainThread)
    \/ \E scorer \in ScorerOutcomes : Classify(MainThread, scorer)
    \/ Compose(MainThread)
    \/ \E choice \in 1..5 : Generate(MainThread, choice)
    \/ Filter(MainThread)
    \/ Sanitize(MainThread)
    \/ UpdateHistory(MainThread)
    \/ Package(MainThread)
    \/ ReturnReplay(MainThread)
    \/ reset_conversation

SpecReplay == InitReplay /\ [][NextReplay]_vars

\* C13: calls with the same user message, the same context and the same starting
\* history, the service unavailable, return the same reply: the same response,
\* emotion fields, is_safe and metadata.
C13_SameCallSameReply ==
    \A i, j \in 1..Len(log) : log[i] = log[j]

(***************************************************************************)
(* sanitize_output applied to a text, and again to what it returned        *)
(***************************************************************************)
MaxPasses == 2

MaxFragments == 3

\* pieces of text: an e-mail address, runs of digits, a URL, a phone number, a
\* country code, and plain text
SanitizeFragments ==
    {
        <<"a","@","b",".","c","o">>,
        <<"1","2","3","4","5","6","7","8","9","0">>,
        <<"h","t","t","p",":","/","/","x",".","y","/","z">>,
        <<"5","5","5","-","1","2","3","-","4","5","6","7">>,
        <<"+","1"," ">>,
        <<" ">>,
        <<"s","e","e"," ">>,
        <<"x">> }

RECURSIVE concat(_)
concat(pieces) == IF Len(pieces) = 0 THEN <<>> ELSE pieces[1] \o concat(Tail(pieces))

SanitizeInputs ==
    {concat(pieces) : pieces \in StrUpTo(SanitizeFragments, MaxFragments)}

InitSanitize ==
    /\ InitGenerator
    /\ ~api_key_set /\ ~has_textblob
    /\ fn = "none"
    /\ arg \in {Str(s) : s \in SanitizeInputs}
    /\ ret = None
    /\ log = <<>>

\* log holds what each pass returned
CallSanitize ==
    /\ Len(log) < MaxPasses
    /\ fn' = "sanitize_output"
    /\ ret' = Str(sanitize_output(IF log = <<>> THEN arg.s ELSE ret.s))
    /\ log' = Append(log, ret')
    /\ UNCHANGED <<arg, conversation_history, frame, calls>>
    /\ unchanged_generator

NextSanitize == CallSanitize

SpecSanitize == InitSanitize /\ [][NextSanitize]_vars

\* C15: sanitize_output is idempotent: a pass over the output of a pass returns
\* it as it is.
C15_SanitizeIdempotent ==
    \A i \in 2..Len(log) : log[i] = log[1]

(***************************************************************************)
(* _add_disclaimer and filter_response applied to a reply, and again to    *)
(* what they returned                                                      *)
(***************************************************************************)
MaxApplications == 3

InitDisclaimer ==
    /\ InitGenerator
    /\ ~api_key_set /\ ~has_textblob
    /\ fn = "none"
    /\ arg \in {Str(s) : s \in FilterInputs}
    /\ ret = None
    /\ log = <<>>

\* the text the next application is given: the reply, then what came back last
CurrentText == IF log = <<>> THEN arg.s ELSE log[Len(log)].text

\* log holds, per application, the function applied and what it returned
CallAddDisclaimer ==
    /\ Len(log) < MaxApplications
    /\ fn' = "_add_disclaimer"
    /\ ret' = Str(_add_disclaimer(CurrentText))
    /\ log' = Append(log, [fn |-> "_add_disclaimer", text |-> _add_disclaimer(CurrentText)])
    /\ UNCHANGED <<arg, conversation_history, frame, calls>>
    /\ unchanged_generator

CallFilterAgain ==
    /\ Len(log) < MaxApplications
    /\ fn' = "filter_response"
    /\ ret' = filter_response(CurrentText, <<>>)
    /\ log' = Append(log, [fn |-> "filter_response",
                           text |-> filter_response(CurrentText, <<>>)[1],
                           is_safe |-> filter_response(CurrentText, <<>>)[2]])
    /\ UNCHANGED <<arg, conversation_history, frame, calls>>
    /\ unchanged_generator

NextDisclaimer == CallAddDisclaimer \/ CallFilterAgain

SpecDisclaimer == InitDisclaimer /\ [][NextDisclaimer]_vars

ends_with(s, k) == Len(s) >= Len(k) /\ SubSeq(s, Len(s) - Len(k) + 1, Len(s)) = k

\* how many times k stands in s
occurrences(s, k) ==
    Cardinality({i \in 0..(Len(s) - Len(k)) : SubSeq(s, i + 1, i + Len(k)) = k})

\* a reply the filter lets through: no medical keyword, no prohibited phrase
PassesFilter(text) ==
    /\ ~HoldsAnyOf(text, medical_keywords)
    /\ ~HoldsAnyOf(text, prohibited_phrases)

\* C16: for a reply the filter lets through, _add_disclaimer and filter_response
\* return a text that ends with the disclaimer as it is; and however often they are
\* applied to a mental-health-topic reply, the result holds the disclaimer exactly
\* once and filter_response reports it safe.
C16_DisclaimerAppendedOnce ==
    PassesFilter(arg.s)
    => \A i \in 1..Len(log) :
          LET before == IF i = 1 THEN arg.s ELSE log[i - 1].text
          IN  /\ ends_with(before, disclaimer) => log[i].text = before
              /\ log[i].fn = "filter_response" => log[i].is_safe
              /\ _is_mental_health_topic(lower(arg.s))
                 => occurrences(log[i].text, disclaimer) = 1

C16_Witness ==
    /\ Len(log) = 3
    /\ PassesFilter(arg.s)
    /\ _is_mental_health_topic(lower(arg.s))
    /\ log[1].fn = "filter_response"
    /\ log[2].fn = "_add_disclaimer"
    /\ log[3].fn = "filter_response"
    /\ log[1].text = arg.s \o disclaimer
    /\ log[3].text = log[1].text
    /\ log[3].is_safe

\* C16 as stated, for every text: an application to a text that ends with the
\* disclaimer returns it as it is, and filter_response reports it safe.
C16_DisclaimedTextUnchanged ==
    \A i \in 1..Len(log) :
        LET before == IF i = 1 THEN arg.s ELSE log[i - 1].text
        IN  ends_with(before, disclaimer)
            => /\ log[i].text = before
               /\ log[i].fn = "filter_response" => log[i].is_safe

(***************************************************************************)
(* detect_emotion applied to short messages                                *)
(***************************************************************************)
MaxWords == 5

\* the keywords anxious and fearful share, keywords of fearful alone, of sad, of
\* anxious alone and of happy
EmotionWords ==
    <<
        <<"f","e","a","r">>,
        <<"s","c","a","r","e","d">>,
        <<"a","f","r","a","i","d">>,
        <<"t","e","r","r","i","f","i","e","d">>,
        <<"p","a","n","i","c">>,
        <<"d","r","e","a","d">>,
        <<"p","h","o","b","i","a">>,
        <<"n","i","g","h","t","m","a","r","e">>,
        <<"s","a","d">>,
        <<"l","o","n","e","l","y">>,
        <<"w","o","r","r","i","e","d">>,
        <<"h","a","p","p","y">> >>

ExamSentence ==
        <<"I"," ","f","e","e","l"," ","v","e","r","y"," ","a","n","x","i","o","u","s"," ","a",
          "b","o","u","t"," ","m","y"," ","e","x","a","m","!","!">>

ShoutedSentences ==
    {
        <<"S","T","O","P">>,
        <<"H","E","L","L","O"," ","T","H","E","R","E"," ","M","Y"," ","F","R","I","E","N","D">>,
        <<"L","E","A","V","E"," ","M","E"," ","A","L","O","N","E">> }

\* the words of a set of positions of EmotionWords, each followed by a space
words_at(positions) ==
    LET picked == SelectSeq([i \in 1..Len(EmotionWords) |-> i],
                            LAMBDA i : i \in positions)
    IN  concat([k \in 1..Len(picked) |-> EmotionWords[picked[k]] \o <<" ">>])

EmotionInputs ==
    {ExamSentence} \cup ShoutedSentences
    \cup {words_at(positions) :
            positions \in {S \in SUBSET (1..Len(EmotionWords)) : Cardinality(S) <= MaxWords}}

\* what TextBlob may give for a text when it is installed: an exception, or a
\* polarity and a subjectivity (in hundredths); without it the keyword count
SentimentOutcomes ==
    IF has_textblob
    THEN {[available |-> TRUE, raised |-> TRUE]}
         \cup {[available |-> TRUE, raised |-> FALSE, polarity |-> pol, subjectivity |-> sub] :
                  pol \in {-50, 0, 50}, sub \in {0, 100}}
    ELSE {[available |-> FALSE]}

InitEmotion ==
    /\ InitGenerator
    /\ ~api_key_set
    /\ fn = "none"
    /\ arg \in {Str(s) : s \in EmotionInputs}
    /\ ret = None
    /\ log = <<>>

\* log holds what the sentiment scorer did in the call
CallDetectEmotion(scorer) ==
    /\ fn = "none"
    /\ fn' = "detect_emotion"
    /\ ret' = detect_emotion(arg.s, scorer)
    /\ log' = <<scorer>>
    /\ UNCHANGED <<arg, conversation_history, frame, calls>>
    /\ unchanged_generator

NextEmotion == \E scorer \in SentimentOutcomes : CallDetectEmotion(scorer)

SpecEmotion == InitEmotion /\ [][NextEmotion]_vars

\* C17: for "I feel very anxious about my exam!!" detect_emotion returns the
\* emotion anxious and the intensity high, both when the external scorer answers
\* (it finds the sentence subjective) and with the keyword fallback, whose
\* subjectivity is 0.
C17_ExamSentenceIsHigh ==
    (/\ fn = "detect_emotion"
     /\ arg.s = ExamSentence
     /\ log[1].available => (~log[1].raised /\ log[1].subjectivity > 0))
    => /\ ret.primary_emotion = "anxious"
       /\ ret.intensity = "high"

\* the text is written in capitals: it has letters, none of them lowercase
AllCapitals(text) ==
    /\ \E i \in 1..Len(text) : IsUpper(text[i])
    /\ \A i \in 1..Len(text) : ~IsLower(text[i])

\* the text holds no intensity modifier, letter case aside, and no exclamation mark
Unmodified(text) ==
    /\ ~HoldsAnyOf(text, intensity_words_high)
    /\ ~HoldsAnyOf(text, intensity_words_low)
    /\ count(text, "!") = 0

\* C18: the score counts 10 times the share of capitals in the message: a message
\* in capitals without modifier words and exclamation marks, in which more than
\* half the characters are capitals, scores above 5 and is given intensity high.
C18_CapitalsRaiseIntensity ==
    (/\ fn = "detect_emotion"
     /\ AllCapitals(arg.s)
     /\ Unmodified(arg.s)
     /\ 2 * Cardinality({i \in 1..Len(arg.s) : IsUpper(arg.s[i])}) > Len(arg.s))
    => ret.intensity = "high"

\* how many keywords of a category the text holds, letter case aside
MatchCount(text, emotion) ==
    Cardinality({i \in 1..Len(emotion_keywords[emotion]) :
                    HoldsKeyword(text, emotion_keywords[emotion][i])})

\* the place of a category in the declaration order
DeclaredAt(emotion) == CHOOSE i \in 1..Len(EmotionCategories) : EmotionCategories[i] = emotion

\* the keywords that anxious and fearful both list
SharedKeywords ==
    {emotion_keywords["anxious"][i] : i \in 1..Len(emotion_keywords["anxious"])}
    \cap {emotion_keywords["fearful"][i] : i \in 1..Len(emotion_keywords["fearful"])}

\* every keyword, of any category, that the text holds is a shared one
OnlySharedKeywords(text) ==
    \A n \in 1..Len(EmotionCategories) :
        \A i \in 1..Len(emotion_keywords[EmotionCategories[n]]) :
            HoldsKeyword(text, emotion_keywords[EmotionCategories[n]][i])
            => emotion_keywords[EmotionCategories[n]][i] \in SharedKeywords

\* C19: when a keyword matches, primary_emotion is the category with the highest
\* match count, the first declared among equals, and confidence is
\* min(count * 0.25, 1.0); a text that holds only keywords shared by anxious and
\* fearful is classified anxious, and fearful is returned only when its count is
\* above that of every category declared before it.
C19_HighestCountFirstDeclared ==
    (/\ fn = "detect_emotion"
     /\ \E n \in 1..Len(EmotionCategories) : MatchCount(arg.s, EmotionCategories[n]) > 0)
    => LET primary == ret.primary_emotion
           top == MatchCount(arg.s, primary)
       IN  /\ primary \in {EmotionCategories[n] : n \in 1..Len(EmotionCategories)}
           /\ \A n \in 1..Len(EmotionCategories) :
                 /\ MatchCount(arg.s, EmotionCategories[n]) <= top
                 /\ n < DeclaredAt(primary) => MatchCount(arg.s, EmotionCategories[n]) < top
           /\ ret.confidence = (IF 25 * top < 100 THEN 25 * top ELSE 100)
           /\ OnlySharedKeywords(arg.s) => primary = "anxious"

C19_Witness ==
    /\ fn = "detect_emotion"
    /\ OnlySharedKeywords(arg.s)
    /\ MatchCount(arg.s, "fearful") = 5
    /\ MatchCount(arg.s, "anxious") = 5
    /\ ret.primary_emotion = "anxious"
    /\ ret.confidence = 100

(***************************************************************************)
(* build_prompt applied to histories of up to MaxEntries messages          *)
(***************************************************************************)
MaxEntries == 8

\* the emotions build_prompt is called with: the seven labels and one that is none
PromptEmotions ==
    {"sad", "anxious", "angry", "happy", "fearful", "confused", "neutral", "excited"}

\* a message of 205 characters whose last five differ from the rest
LongMessage == [i \in 1..205 |-> IF i <= 200 THEN "x" ELSE "y"]

\* the n-th message of a history: "m" and the digit n
ShortMessage(n) == <<"m", <<"0", "1", "2", "3", "4", "5", "6", "7", "8", "9">>[(n % 10) + 1]>>

\* the history of n messages, user and assistant in turn, whose long-th message
\* is the long one (long = 0: none is)
HistoryOf(n, long) ==
    [i \in 1..n |-> Entry(IF i % 2 = 1 THEN "user" ELSE "assistant",
                          IF i = long THEN LongMessage ELSE ShortMessage(i))]

CurrentMessage ==
        <<"I"," ","f","e","e","l"," ","s","o"," ","s","a","d">>

InitPrompt ==
    /\ InitGenerator
    /\ ~api_key_set /\ ~has_textblob
    /\ fn = "none"
    /\ arg \in {[user_message |-> CurrentMessage, emotion |-> e, history |-> HistoryOf(n, long)] :
                  e \in PromptEmotions, n \in 0..MaxEntries, long \in 0..MaxEntries}
    /\ ret = None
    /\ log = <<>>

CallBuildPrompt ==
    /\ fn = "none"
    /\ fn' = "build_prompt"
    /\ ret' = Str(build_prompt(arg.user_message, arg.emotion, arg.history))
    /\ UNCHANGED <<arg, log, conversation_history, frame, calls>>
    /\ unchanged_generator

NextPrompt == CallBuildPrompt

SpecPrompt == InitPrompt /\ [][NextPrompt]_vars

\* one message of the history as the prompt shows it: at most 200 characters
ShownMessage(entry) ==
    (IF entry.role = "user" THEN RoleUser ELSE RoleAssistant) \o RoleSeparator
    \o (IF Len(entry.content) <= 200 THEN entry.content ELSE SubSeq(entry.content, 1, 200))

\* the messages from the i-th on, one per line
RECURSIVE ShownFrom(_, _)
ShownFrom(history, i) ==
    IF i > Len(history) THEN <<>>
    ELSE ShownMessage(history[i])
         \o (IF i < Len(history) THEN <<"\n">> ELSE <<>>)
         \o ShownFrom(history, i + 1)

\* C20: the prompt is the system prompt, the emotion and its guidance (the neutral
\* guidance for an emotion outside the seven labels), then, unless the history is
\* empty, the block of its last six messages at most, in order, each cut to 200
\* characters, then the current user message.
C20_PromptShowsLastSix ==
    fn = "build_prompt"
    => LET h == arg.history
           guidance == IF arg.emotion \in {"sad", "anxious", "angry", "happy", "fearful",
                                           "confused", "neutral"}
                       THEN emotion_guidance[arg.emotion] ELSE emotion_guidance["neutral"]
           first == IF Len(h) > 6 THEN Len(h) - 5 ELSE 1
       IN  ret.s = system_prompt \o <<"\n">>
                   \o PromptEmotionHeader \o EmotionLabel(arg.emotion) \o <<"\n">> \o guidance
                   \o (IF Len(h) = 0 THEN <<>>
                       ELSE <<"\n">> \o PromptHistoryHeader \o ShownFrom(h, first))
                   \o <<"\n">> \o PromptUserHeader \o arg.user_message \o PromptTrailer

C20_Witness ==
    /\ fn = "build_prompt"
    /\ Len(arg.history) = 8
    /\ arg.history[4].content = LongMessage
    /\ arg.emotion = "excited"
    /\ str_in(ShownMessage(arg.history[3]) \o <<"\n">> \o ShownMessage(arg.history[4])
              \o <<"\n">> \o ShownMessage(arg.history[5]), ret.s)
    /\ ~str_in(ShownMessage(arg.history[2]), ret.s)
    /\ ~str_in(LongMessage, ret.s)
    /\ str_in(emotion_guidance["neutral"], ret.s)

(***************************************************************************)
(* generate_response from the moment client.text_generation has answered a *)
(* non-empty text                                                          *)
(***************************************************************************)
MaxAnswerLen == 4

\* the characters of an answer: the three sentence ends, a letter, a blank
AnswerAlphabet == {".", "!", "?", "a", " "}

AnswerInputs == {t \in StrUpTo(AnswerAlphabet, MaxAnswerLen) : Len(t) > 0}

InitAnswer ==
    /\ InitGenerator
    /\ api_key_set /\ use_client /\ ~has_textblob
    /\ fn = "none"
    /\ arg \in {Str(t) : t \in AnswerInputs}
    /\ ret = None
    /\ log = <<>>

\* the service returns arg; the value is what generate_response returns
CallGenerateResponse(choice) ==
    /\ fn = "none"
    /\ fn' = "generate_response"
    /\ ret' = Str(after_text_generation([kind |-> "returns", text |-> arg.s],
                                        <<>>, "neutral", choice).text)
    /\ UNCHANGED <<arg, log, conversation_history, frame, calls>>
    /\ unchanged_generator

NextAnswer == \E choice \in 1..5 : CallGenerateResponse(choice)

SpecAnswer == InitAnswer /\ [][NextAnswer]_vars

\* s holds one of '.', '!', '?'
HoldsSentenceEnd(s) == \E i \in 1..Len(s) : s[i] \in SentenceEnd

\* C21: for every non-empty text the service returns that holds at least one of
\* '.', '!' and '?', the string generate_response returns ends with one of those
\* characters, also when the only such character is the first of the text.
C21_AnswerEndsAtSentenceEnd ==
    (fn = "generate_response" /\ HoldsSentenceEnd(arg.s))
    => (Len(ret.s) > 0 /\ ret.s[Len(ret.s)] \in SentenceEnd)

(***************************************************************************)
(* generate called from two threads on one ResponseGenerator.  The host    *)
(* either holds a lock of its own around every call (arg.serialized) or    *)
(* lets the calls overlap; _update_history runs statement by statement     *)
(***************************************************************************)
\* the message each thread sends
ThreadMessage(p) ==
    IF p = 1 THEN Str(<<"I"," ","f","e","e","l"," ","s","o"," ","s","a","d">>)
    ELSE Str(<<"W","h","y"," ","m","e","?">>)

\* an earlier turn of the conversation: the message and the reply generate gave
\* to it with no generation service configured
EarlierMessage == <<"h","e","l","l","o"," ","t","h","e","r","e">>

EarlierReply ==
    LET emotion == detect_emotion(EarlierMessage, [available |-> FALSE]).primary_emotion
        raw == _fallback_response(emotion, build_prompt(EarlierMessage, emotion, <<>>), 1)
    IN  sanitize_output(filter_response(raw, EarlierMessage)[1])

EarlierTurn == [user |-> EarlierMessage, reply |-> EarlierReply]

\* the history that holds the turns, oldest first
RECURSIVE HistoryOfTurns(_)
HistoryOfTurns(turns) ==
    IF Len(turns) = 0 THEN <<>>
    ELSE <<Entry("user", turns[1].user), Entry("assistant", turns[1].reply)>>
         \o HistoryOfTurns(Tail(turns))

\* log holds the turns handed to _update_history so far, oldest first: none, or
\* as many as the history keeps
InitConcurrent ==
    /\ api_key_set = FALSE /\ use_client = FALSE /\ has_textblob = FALSE
    /\ current_model = PrimaryModel
    /\ frame = [p \in Threads |-> IdleFrame]
    /\ calls = 0
    /\ fn = "none"
    /\ arg \in [serialized : BOOLEAN]
    /\ ret = None
    /\ log \in {<<>>, [k \in 1..DefaultMaxHistory |-> EarlierTurn]}
    /\ conversation_history = HistoryOfTurns(log)

\* two calls are made in all, as many as there are threads
StartConcurrent(p) ==
    /\ frame[p].pc = "idle"
    /\ calls < Cardinality(Threads)
    /\ arg.serialized => \A q \in Threads : frame[q].pc = "idle"
    /\ calls' = calls + 1
    /\ frame' = [frame EXCEPT ![p] = [IdleFrame EXCEPT !.pc = "validate_user_input",
                                                       !.user_message = ThreadMessage(p)]]
    /\ UNCHANGED conversation_history
    /\ unchanged_generator /\ unchanged_direct

\* self.conversation_history.append({"role": "user", ...})
AppendUser(p) ==
    /\ frame[p].pc = "_update_history"
    /\ conversation_history' = append_entry(conversation_history, "user",
                                            frame[p].user_message.s)
    /\ log' = Append(log, [user |-> frame[p].user_message.s,
                           reply |-> frame[p].final_response])
    /\ frame' = [frame EXCEPT ![p].trace = Append(@, "_update_history"),
                              ![p].pc = "append_assistant"]
    /\ UNCHANGED <<calls, fn, arg, ret>>
    /\ unchanged_generator

\* self.conversation_history.append({"role": "assistant", ...})
AppendAssistant(p) ==
    /\ frame[p].pc = "append_assistant"
    /\ conversation_history' = append_entry(conversation_history, "assistant",
                                            frame[p].final_response)
    /\ frame' = [frame EXCEPT ![p].pc = "test_length"]
    /\ UNCHANGED calls
    /\ unchanged_generator /\ unchanged_direct

\* if len(self.conversation_history) > max_history * 2
TestLength(p) ==
    /\ frame[p].pc = "test_length"
    /\ frame' = [frame EXCEPT ![p].pc =
                    IF needs_pruning(conversation_history, DefaultMaxHistory)
                    THEN "read_slice" ELSE "_create_response_object"]
    /\ UNCHANGED <<conversation_history, calls>>
    /\ unchanged_generator /\ unchanged_direct

\* the right-hand side self.conversation_history[-(max_history * 2):] is evaluated
ReadSlice(p) ==
    /\ frame[p].pc = "read_slice"
    /\ frame' = [frame EXCEPT ![p].kept = pruned_slice(conversation_history,
                                                       DefaultMaxHistory),
                              ![p].pc = "assign_slice"]
    /\ UNCHANGED <<conversation_history, calls>>
    /\ unchanged_generator /\ unchanged_direct

\* self.conversation_history = <the slice>
AssignSlice(p) ==
    /\ frame[p].pc = "assign_slice"
    /\ conversation_history' = frame[p].kept
    /\ frame' = [frame EXCEPT ![p].pc = "_create_response_object"]
    /\ UNCHANGED calls
    /\ unchanged_generator /\ unchanged_direct

StepConcurrent(p) ==
    \/ StartConcurrent(p)
    \/ Validate(p)
    \/ CheckCrisis(p)
    \/ \E scorer \in ScorerOutcomes : Classify(p, scorer)
    \/ Compose(p)
    \/ \E choice \in 1..5 : Generate(p, choice)
    \/ Filter(p)
    \/ Sanitize(p)
    \/ AppendUser(p)
    \/ AppendAssistant(p)
    \/ TestLength(p)
    \/ ReadSlice(p)
    \/ AssignSlice(p)
    \/ Package(p)
    \/ Return(p)

NextConcurrent == \E p \in Threads : StepConcurrent(p)

SpecConcurrent == InitConcurrent /\ [][NextConcurrent]_vars

\* the assistant entry that answers the user entry, by the turns handed over
OwnReply(user_entry, next_entry) ==
    \E k \in 1..Len(log) :
        /\ log[k].user = user_entry.content
        /\ next_entry = Entry("assistant", log[k].reply)

\* a user entry of the history that is followed by something else than its own
\* reply, or by nothing although no call is between its two appends
BrokenPair ==
    \E i \in 1..Len(conversation_history) :
        /\ conversation_history[i].role = "user"
        /\ IF i < Len(conversation_history)
           THEN ~OwnReply(conversation_history[i], conversation_history[i + 1])
           ELSE \A p \in Threads : frame[p].pc # "append_assistant"

\* no call is inside _update_history
NoUpdateRunning ==
    \A p \in Threads :
        frame[p].pc \notin {"append_assistant", "test_length", "read_slice", "assign_slice"}

InHistory(entry) ==
    \E i \in 1..Len(conversation_history) : conversation_history[i] = entry

\* every update has finished, and an entry of one of the max_history latest
\* turns is not in the history
LostEntry ==
    /\ NoUpdateRunning
    /\ \E k \in 1..Len(log) :
          /\ k > Len(log) - DefaultMaxHistory
          /\ \/ ~InHistory(Entry("user", log[k].user))
             \/ ~InHistory(Entry("assistant", log[k].reply))

\* C22: generate has no serialization of its own.  With the calls serialized by
\* the host, no user entry of the internal history is followed by anything but its
\* own assistant reply and no appended entry is lost; with two calls overlapping,
\* both are reachable (see C22_Witness).
C22_SerializedCallsKeepPairs ==
    arg.serialized => (~BrokenPair /\ ~LostEntry)

\* two overlapping calls have returned: a user entry is not followed by its own
\* reply, and an entry one call appended went with the other call's assignment
C22_Witness ==
    /\ ~arg.serialized
    /\ \A p \in Threads : frame[p].pc = "returned"
    /\ BrokenPair
    /\ LostEntry

(***************************************************************************)
(* generate called with no generation service configured: every reply      *)
(* comes from _fallback_response                                           *)
(***************************************************************************)
\* messages of the several emotions, with a money word, a future word, or no
\* topic word at all
TopicMessages ==
    { Str(<<"I"," ","a","m"," ","s","o"," ","c","o","n","f","u","s","e","d">>),
      Str(<<"h","e","l","l","o"," ","t","h","e","r","e">>),
      Str(<<"I"," ","a","m"," ","b","r","o","k","e">>),
      Str(<<"w","h","a","t"," ","i","f"," ","i","t"," ","r","a","i","n","s">>),
      Str(<<"I"," ","f","e","e","l"," ","s","o"," ","s","a","d">>),
      Str(<<"I"," ","a","m"," ","f","u","r","i","o","u","s">>) }

InitFallback ==
    /\ InitGenerator
    /\ ~use_client
    /\ NoDirectCall

NextFallback ==
    \/ \E m \in TopicMessages : Start(MainThread, m, NoContext)
    \/ ProgramStep(MainThread)

SpecFallback == InitFallback /\ [][NextFallback]_vars

\* the emotion labels of an EmotionAssessment
SevenLabels == {"sad", "anxious", "angry", "happy", "fearful", "confused", "neutral"}

is_prefix(k, s) == Len(s) >= Len(k) /\ SubSeq(s, 1, Len(k)) = k

\* text is a sentence of the pool, as it stands or with its closing punctuation
\* replaced by "." and an addendum after it
BuiltOn(text, pool) ==
    \E c \in 1..Len(pool) :
        \/ text = pool[c]
        \/ is_prefix(rstrip_punct(pool[c]) \o <<".">>, text)

\* C23: each of the seven emotion labels has a pool of its own of 4 to 5
\* sentences, and what _fallback_response returns for a label is built on a
\* sentence of that label's pool.
C23_EveryLabelHasItsPool ==
    \A p \in Threads :
        LET f == frame[p]
            emotion == f.emotion_data.primary_emotion
        IN  (InTrace(f, "_fallback_response") /\ emotion \in SevenLabels)
            => /\ emotion \in DOMAIN fallback_responses
               /\ Len(fallback_responses[emotion]) \in 4..5
               /\ \A other \in DOMAIN fallback_responses \ {emotion} :
                     fallback_responses[other] # fallback_responses[emotion]
               /\ BuiltOn(f.raw_response, fallback_responses[emotion])

\* the topic groups of which the text holds a keyword, letter case aside
GroupsIn(text) ==
    {g \in 1..Len(context_additions) : HoldsAnyOf(text, context_additions[g].keywords)}

FirstOf(groups) == CHOOSE g \in groups : \A h \in groups : g <= h

\* text ends with the addendum of group g and with no other one before it
OneAddendum(text, emotion, g) ==
    \E c \in 1..Len(fallback_pool(emotion)) :
        text = rstrip_punct(fallback_pool(emotion)[c]) \o <<".">>
               \o context_additions[g].addition

\* the groups "money|financial|broke|debt" and "future|tomorrow|worry|what if"
MoneyAndFuture == {5, 6}

\* C24: _fallback_response appends at most one addendum, that of the first group
\* in declaration order of which the scanned text holds a keyword; and a call of
\* generate whose user message holds topic keywords of the money or future group
\* only gets a fallback reply with that group's addendum.
C24_MoneyOrFutureAddendum ==
    \A p \in Threads :
        LET f == frame[p]
            emotion == f.emotion_data.primary_emotion
        IN  InTrace(f, "_fallback_response")
            => /\ GroupsIn(f.prompt) # {}
                  => OneAddendum(f.raw_response, emotion, FirstOf(GroupsIn(f.prompt)))
               /\ (GroupsIn(f.user_message.s) # {}
                   /\ GroupsIn(f.user_message.s) \subseteq MoneyAndFuture)
                  => OneAddendum(f.raw_response, emotion,
                                 FirstOf(GroupsIn(f.user_message.s)))

\* C27: with the generation service unavailable, every reply generate returns
\* for a valid message that is no crisis has is_safe = TRUE and a response that
\* starts with a sentence of the fallback pool: the filter never replaces what
\* _fallback_response gave.
C27_FallbackReplyIsSafe ==
    \A p \in Threads :
        LET f == frame[p]
        IN  (f.pc = "returned" /\ InTrace(f, "_fallback_response"))
            => /\ f.result.is_safe
               /\ BuiltOn(f.result.response.s, fallback_pool(f.emotion_data.primary_emotion))

(***************************************************************************)
(* generate called with messages around the length limit of                *)
(* validate_user_input, no generation service configured                   *)
(***************************************************************************)
\* the limit of "if len(text) > 1000"
LongLimit == 1000

\* the first n characters of the pattern repeated
Repeated(pattern, n) == [i \in 1..n |-> pattern[((i - 1) % Len(pattern)) + 1]]

\* a text over the limit; one character repeated over the limit; a text over the
\* limit that ends with a crisis keyword; a text of exactly the limit; a short one
LengthMessages ==
    { Str(Repeated(<<"I"," ","f","e","e","l"," ","s","o"," ","s","a","d","."," ">>, LongLimit + 1)),
      Str(Repeated(<<"a">>, LongLimit + 1)),
      Str(Repeated(<<"I"," ","f","e","e","l"," ","s","o"," ","s","a","d","."," ">>, LongLimit - 10) \o <<"I"," ","w","a","n","t"," ","t","o"," ","d","i","e">>),
      Str(Repeated(<<"I"," ","f","e","e","l"," ","s","o"," ","s","a","d","."," ">>, LongLimit)),
      Str(<<"I"," ","f","e","e","l"," ","s","o"," ","s","a","d">>) }

InitLength ==
    /\ InitGenerator
    /\ ~api_key_set /\ ~has_textblob
    /\ NoDirectCall

NextLength ==
    \/ \E m \in LengthMessages : Start(MainThread, m, NoContext)
    \/ ProgramStep(MainThread)

SpecLength == InitLength /\ [][NextLength]_vars

IsEmptyText(text) == text.none \/ Len(strip(text.s)) < 2

IsDegenerate(text) ==
    \/ Cardinality(set(text.s)) < 3
    \/ MoreThan70Percent(count(text.s, text.s[1]), Len(text.s))

\* the reason of the first check that applies, in the order empty, gibberish,
\* long, ok
FirstReason(text) ==
    IF IsEmptyText(text) THEN "empty"
    ELSE IF IsDegenerate(text) THEN "gibberish"
    ELSE IF Len(text.s) > LongLimit THEN "long"
    ELSE "ok"

IsOver(text) == ~text.none /\ Len(text.s) > LongLimit

\* C25: validate_user_input returns the first check that applies in the order
\* empty, gibberish, long, ok.  A text over 1000 characters that is neither
\* empty nor degenerate is valid with reason "long" and a suggestion, and the call
\* goes on to the crisis check and the classification as for "ok": the
\* suggestion is not the reply.  A degenerate text over 1000 characters is
\* rejected as gibberish.
C25_LongIsFlaggedAndAllowed ==
    \A p \in Threads :
        LET f == frame[p]
            v == f.validation
        IN  InTrace(f, "validate_user_input")
            => /\ v.reason = FirstReason(f.user_message)
               /\ v.valid <=> v.reason \in {"long", "ok"}
               /\ v.reason = "long"
                  => /\ v.suggestion = Str(SuggestionLong)
                     /\ f.pc # "validate_user_input"
                     /\ f.pc # "check_crisis" => InTrace(f, "check_crisis")
                     /\ f.pc = "returned"
                        => /\ f.result.response # v.suggestion
                           /\ "validation_failed" \notin DOMAIN f.result.metadata
                           /\ \/ f.crisis_check.is_crisis /\ f.result = crisis_reply(f.crisis_check)
                              \/ ~f.crisis_check.is_crisis /\ InTrace(f, "detect_emotion")
               /\ (IsOver(f.user_message) /\ IsDegenerate(f.user_message))
                  => (~v.valid /\ v.reason = "gibberish" /\ f.pc = "returned"
                      /\ f.result.response = Str(SuggestionGibberish))

\* a call with a text over the limit that is not degenerate has returned, having
\* gone through the classification and the history update
C25_Witness ==
    \E p \in Threads :
        LET f == frame[p]
        IN  /\ f.pc = "returned"
            /\ IsOver(f.user_message)
            /\ f.validation.reason = "long"
            /\ InTrace(f, "detect_emotion")
            /\ InTrace(f, "_update_history")

(***************************************************************************)
(* generate called with None, an empty list or a list of one turn as        *)
(* conversation_context, on a generator whose own history is empty or       *)
(* holds one earlier turn                                                   *)
(***************************************************************************)
EmptyContext == [none |-> FALSE, list |-> <<>>]

SuppliedContexts == Contexts \cup {EmptyContext}

InitContext ==
    /\ api_key_set \in BOOLEAN
    /\ use_client = FALSE
    /\ has_textblob \in BOOLEAN
    /\ current_model = PrimaryModel
    /\ frame = [p \in Threads |-> IdleFrame]
    /\ calls = 0
    /\ conversation_history \in {<<>>, HistoryOfTurns(<<EarlierTurn>>)}
    /\ NoDirectCall

NextContext ==
    \/ \E m \in Messages, ctx \in SuppliedContexts : Start(MainThread, m, ctx)
    \/ ProgramStep(MainThread)

SpecContext == InitContext /\ [][NextContext]_vars

\* C26: build_prompt is given the caller's conversation_context whenever the
\* caller supplies one, the empty list included, and the internal history only
\* when the caller supplies none (None).
C26_SuppliedContextIsUsed ==
    \A p \in Threads :
        LET f == frame[p]
        IN  f.pc = "generate_response"
            => f.prompt = build_prompt(f.user_message.s, f.emotion_data.primary_emotion,
                                       IF f.context_on_entry.none
                                       THEN conversation_history
                                       ELSE f.context_on_entry.list)

(***************************************************************************)
(* generate and reset_conversation called one after another on a generator *)
(* that is new or has had ten turns, no generation service configured; log *)
(* holds the turns since the last reset: each user message that reached    *)
(* _update_history with the response returned for it                       *)
(***************************************************************************)
MaxTurns == 2

\* no message, a crisis, a sad message, and a message whose neutral replies
\* include one the filter replaces
TurnMessages ==
    { Str(<<>>),
      Str(<<"I"," ","w","a","n","t"," ","t","o"," ","D","I","E">>),
      Str(<<"I"," ","f","e","e","l"," ","s","o"," ","s","a","d">>),
      Str(<<"h","e","l","l","o"," ","t","h","e","r","e">>) }

InitTurns ==
    /\ api_key_set = FALSE /\ use_client = FALSE /\ has_textblob = FALSE
    /\ current_model = PrimaryModel
    /\ frame = [p \in Threads |-> IdleFrame]
    /\ calls = 0
    /\ fn = "none" /\ arg = None /\ ret = None
    /\ log \in {<<>>, [k \in 1..DefaultMaxHistory |-> EarlierTurn]}
    /\ conversation_history = HistoryOfTurns(log)

StartTurn(p, m, ctx) ==
    /\ frame[p].pc = "idle"
    /\ calls < MaxTurns
    /\ calls' = calls + 1
    /\ frame' = [frame EXCEPT ![p] = [IdleFrame EXCEPT !.pc = "validate_user_input",
                                                       !.user_message = m,
                                                       !.conversation_context = ctx,
                                                       !.context_on_entry = ctx]]
    /\ UNCHANGED conversation_history
    /\ unchanged_generator /\ unchanged_direct

\* the caller takes the reply; a reply of the whole pipeline is noted with its
\* user message
ReturnTurn(p) ==
    /\ frame[p].pc = "returned"
    /\ frame' = [frame EXCEPT ![p] = IdleFrame]
    /\ log' = IF InTrace(frame[p], "_update_history")
              THEN Append(log, [user |-> frame[p].user_message.s,
                                reply |-> frame[p].result.response.s])
              ELSE log
    /\ UNCHANGED <<conversation_history, calls, fn, arg, ret>>
    /\ unchanged_generator

\* reset_conversation, the noted turns forgotten with the history
ResetTurns ==
    /\ frame[MainThread].pc = "idle"
    /\ conversation_history # <<>>
    /\ conversation_history' = <<>>
    /\ log' = <<>>
    /\ UNCHANGED <<frame, calls, fn, arg, ret>>
    /\ unchanged_generator

NextTurns ==
    \/ \E m \in TurnMessages, ctx \in Contexts : StartTurn(MainThread, m, ctx)
    \/ Validate(MainThread)
    \/ CheckCrisis(MainThread)
    \/ \E scorer \in ScorerOutcomes : Classify(MainThread, scorer)
    \/ Compose(MainThread)
    \/ \E choice \in 1..5 : Generate(MainThread, choice)
    \/ Filter(MainThread)
    \/ Sanitize(MainThread)
    \/ UpdateHistory(MainThread)
    \/ Package(MainThread)
    \/ ReturnTurn(MainThread)
    \/ ResetTurns

SpecTurns == InitTurns /\ [][NextTurns]_vars

\* the last n of the turns
LatestTurns(turns, n) ==
    IF Len(turns) > n THEN SubSeq(turns, Len(turns) - n + 1, Len(turns)) ELSE turns

\* the call of the thread has appended its pair
HasAppended(f) == InTrace(f, "_update_history")

\* the turns since the last reset, the one of the running call included once it
\* has appended its pair: its response is the one returned, or about to be
TurnsSoFar ==
    LET f == frame[MainThread]
    IN  IF HasAppended(f)
        THEN Append(log, [user |-> f.user_message.s,
                          reply |-> IF f.pc = "returned" THEN f.result.response.s
                                    ELSE f.final_response])
        ELSE log

Alternates(history) ==
    \A i \in 1..Len(history) :
        history[i].role = (IF i % 2 = 1 THEN "user" ELSE "assistant")

\* C29: after any sequence of generate and reset_conversation calls made one
\* after another, the internal history has an even length of at most 20,
\* alternates user and assistant from a user entry on, and holds the latest
\* turns in order: each assistant entry is the response returned for the user
\* entry before it.  A call that reaches the packaging has appended exactly its
\* own pair, with or without a caller's context and moderated or not; a call that
\* returns earlier appends nothing; after reset_conversation the history is
\* empty.
C29_HistoryHoldsLatestTurns ==
    /\ Len(conversation_history) % 2 = 0
    /\ Len(conversation_history) <= 2 * DefaultMaxHistory
    /\ Alternates(conversation_history)
    /\ conversation_history = HistoryOfTurns(LatestTurns(TurnsSoFar, DefaultMaxHistory))
    /\ log = <<>> /\ ~HasAppended(frame[MainThread]) => conversation_history = <<>>

\* a moderated reply given to a call with a caller's context has been appended to
\* a full history, and the oldest turn has gone
C29_Witness ==
    LET f == frame[MainThread]
    IN  /\ f.pc = "returned"
        /\ HasAppended(f)
        /\ ~f.result.is_safe
        /\ ~f.context_on_entry.none
        /\ Len(log) >= DefaultMaxHistory
        /\ Len(conversation_history) = 2 * DefaultMaxHistory
        /\ conversation_history[2 * DefaultMaxHistory] =
               Entry("assistant", f.result.response.s)

(***************************************************************************)
(* generate, switch_model and reset_conversation called one after another, *)
(* no generation service configured; arg holds the generator's history and *)
(* current_model as they were when the running call was entered            *)
(***************************************************************************)
MaxEntered == 2

\* the argument of switch_model: the two keys of models and another string
ModelTypes == {"primary", "fallback", "best"}

InitEntered ==
    /\ InitGenerator
    /\ ~api_key_set /\ ~has_textblob
    /\ fn = "none"
    /\ arg = [history |-> conversation_history, model |-> current_model]
    /\ ret = None
    /\ log = <<>>

StartEntered(p, m) ==
    /\ frame[p].pc = "idle"
    /\ calls < MaxEntered
    /\ calls' = calls + 1
    /\ frame' = [frame EXCEPT ![p] = [IdleFrame EXCEPT !.pc = "validate_user_input",
                                                       !.user_message = m]]
    /\ fn' = "generate"
    /\ arg' = [history |-> conversation_history, model |-> current_model]
    /\ UNCHANGED <<conversation_history, ret, log>>
    /\ unchanged_generator

\* LLMHandler.switch_model, called between two calls of generate
switch_model(model_type) ==
    /\ \A p \in Threads : frame[p].pc = "idle"
    /\ current_model' = model_after_switch(current_model, model_type)
    /\ UNCHANGED <<conversation_history, api_key_set, use_client, has_textblob,
                   frame, calls>>
    /\ unchanged_direct

NextEntered ==
    \/ \E m \in Messages : StartEntered(MainThread, m)
    \/ ProgramStep(MainThread)
    \/ \E model_type \in ModelTypes : switch_model(model_type)
    \/ reset_conversation

SpecEntered == InitEntered /\ [][NextEntered]_vars

\* the call ended in the validation-failed branch or in the crisis branch
EndedEarly(f) ==
    /\ f.pc = "returned"
    /\ \/ "validation_failed" \in DOMAIN f.result.metadata
       \/ "is_crisis" \in DOMAIN f.result.metadata

\* a message that generate rejects or answers as a crisis
RejectedOrCrisis(content) ==
    \/ ~validate_user_input(Str(content)).valid
    \/ check_crisis(content).is_crisis

\* C30: a generate call that ends in the validation-failed branch or in the
\* crisis branch leaves the internal history and llm.current_model as they were
\* when it was entered; no rejected or crisis message is ever a user entry of
\* the internal history, and none, unless it is the running call's own message,
\* stands in a prompt built from the internal history.
C30_EarlyExitChangesNothing ==
    /\ \A p \in Threads :
          LET f == frame[p]
          IN  /\ EndedEarly(f)
                 => /\ conversation_history = arg.history
                    /\ current_model = arg.model
                    /\ ~InTrace(f, "_update_history")
              /\ InTrace(f, "build_prompt")
                 => \A m \in Messages :
                       (Len(m.s) > 0 /\ RejectedOrCrisis(m.s) /\ m # f.user_message)
                       => ~str_in(m.s, f.prompt)
    /\ \A i \in 1..Len(conversation_history) :
          conversation_history[i].role = "user"
          => ~RejectedOrCrisis(conversation_history[i].content)

\* a crisis call has returned on a generator whose history holds a turn and
\* whose model was switched
C30_Witness ==
    \E p \in Threads :
        LET f == frame[p]
        IN  /\ EndedEarly(f)
            /\ "is_crisis" \in DOMAIN f.result.metadata
            /\ Len(conversation_history) = 2
            /\ current_model = models["fallback"]
            /\ conversation_history = arg.history

===============================================================================
